---- MODULE Spec2Model ----
(***************************************************************************)
(* Client-side state of the TATVGYA web client: the AuthProvider session   *)
(* state and the route guard, the api helper, and the Explore,             *)
(* StudentDashboard and Article pages together with the requests they have *)
(* in flight.  The backend is an external collaborator: it is modelled     *)
(* only as far as its answers depend on what the client sent before.       *)
(*                                                                         *)
(* A request in flight is a record whose st field is "sent" (not yet       *)
(* handled by the backend), "ok" (a 2xx response is on its way back) or    *)
(* "fail" (a non-2xx response is on its way back).  Responses of different *)
(* requests are delivered in any order: fetch gives no ordering guarantee  *)
(* and the client cancels nothing.                                         *)
(***************************************************************************)
EXTENDS Integers, Sequences, FiniteSets, Bags, TLC

\* ------------------------------------------------------------------ bounds
\* login/googleLogin/logout requests that may be in flight at the same time
MaxAuthReq == 1
\* google-callback requests that may be in flight at the same time
MaxGoogleReq == 2
\* deleteArticle requests of EducatorDashboard that may be in flight at the same time
EdMaxInFlight == 2
\* getMyArticles requests of EducatorDashboard that may be in flight at the same time
EdMaxFetch == 1
\* getArticles requests of the Explore page that may be in flight at the same time
ExMaxInFlight == 2
\* the Explore page is followed up to this value of its page counter
ExMaxPage == 3
\* tab fetches of StudentDashboard that may be in flight at the same time
SdMaxInFlight == 2
\* like and bookmark requests of the Article page that may be in flight at the same time
ArMaxInFlight == 2
\* likes and bookmarks of other users on the displayed article
MaxOthers == 1
\* articleAction requests of AdminDashboard in flight at the same time
AdMaxInFlight == 2
\* getAdminArticles requests of AdminDashboard in flight at the same time
AdMaxFetch == 1
\* getArticles requests of the Home page in flight at the same time
HmMaxInFlight == 2
\* the longest list the backend answers a getArticles of the Home page with
HmMaxLen == 6
\* the longest text typed into the search box of Explore
MaxSearchLen == 2

\* ------------------------------------------------------- auth and routing
VARIABLES
  user,          \* AuthProvider state `user`: Null or the role of the user record
  loading,       \* AuthProvider state `loading`
  path,          \* location.pathname
  hash,          \* location.hash
  navFrom,       \* location.state.from.pathname (Null when no state)
  hasProcessed,  \* AuthCallback's ref hasProcessed.current
  session,       \* backend: the role of the account the session cookie names, or Null
  authNet        \* bag of the requests of AuthProvider in flight

authVars == <<user, loading, path, hash, navFrom, hasProcessed, session,
              authNet>>

Null == "null"
Roles == {"student", "educator", "admin"}

Paths == {"/", "/login", "/dashboard", "/educator",
          "/educator/create", "/educator/edit/:id", "/admin",
          "/auth/callback", "/missing"}

\* URL fragments: none, a fragment carrying a session id, one carrying an empty id
Hashes == {"", "#session_id=abc", "#session_id="}

\* location.hash?.includes('session_id=')
HashIncludesSessionId(h) == h \in {"#session_id=abc", "#session_id="}

\* hash.match(/session_id=([^&]+)/): the captured id, or Null without a match
SessionIdMatch(h) == IF h = "#session_id=abc" THEN "abc" ELSE Null

isAuthenticated == user # Null
isAdmin == user = "admin"
isEducator == user = "educator"
isStudent == user = "student"

\* The route guard.  allowedRoles is a set of roles, children the guarded page.
ProtectedRouteNoLoadingCheck(allowedRoles, children) ==
  IF ~isAuthenticated THEN "NavigateLogin"
  ELSE IF allowedRoles # {} /\ user \notin allowedRoles THEN "NavigateHome"
  ELSE children

ProtectedRouteNoRoleCheck(allowedRoles, children) ==
  IF loading THEN "Spinner"
  ELSE IF ~isAuthenticated THEN "NavigateLogin"
  ELSE children

ProtectedRoute(allowedRoles, children) ==
  IF loading THEN "Spinner"
  ELSE IF ~isAuthenticated THEN "NavigateLogin"
  ELSE IF allowedRoles # {} /\ user \notin allowedRoles THEN "NavigateHome"
  ELSE children

\* allowedRoles of each guarded route
AllowedRoles(p) ==
  CASE p = "/dashboard" -> {"student"}
    [] p \in {"/educator", "/educator/create", "/educator/edit/:id"} -> {"educator", "admin"}
    [] p = "/admin" -> {"admin"}
    [] OTHER -> {}

ProtectedPaths == {"/dashboard", "/educator", "/educator/create",
                   "/educator/edit/:id", "/admin"}

\* The element AppRouter renders for the current location and auth state.
AppRouter ==
  IF HashIncludesSessionId(hash) THEN "AuthCallback"
  ELSE CASE path = "/" -> "Home"
         [] path = "/login" -> "Login"
         [] path = "/auth/callback" -> "AuthCallback"
         [] path = "/dashboard" -> ProtectedRoute({"student"}, "StudentDashboard")
         [] path = "/educator" -> ProtectedRoute({"educator", "admin"}, "EducatorDashboard")
         [] path = "/educator/create" -> ProtectedRoute({"educator", "admin"}, "ArticleEditor")
         [] path = "/educator/edit/:id" -> ProtectedRoute({"educator", "admin"}, "ArticleEditor")
         [] path = "/admin" -> ProtectedRoute({"admin"}, "AdminDashboard")
         [] OTHER -> "NavigateHome"

AuthReq(ep, role, from) == [ep |-> ep, st |-> "sent", role |-> role, from |-> from]

Send(net, r) == net (+) SetToBag({r})
Drop(net, r) == net (-) SetToBag({r})
\* the request r in flight is replaced by its answer a
Answer(net, r, a) == Drop(net, r) (+) SetToBag({a})

\* login, googleLogin and logout requests in flight
AuthPending == BagCardinality(authNet)
                 - Cardinality({r \in BagToSet(authNet) : r.ep = "me"})

\* State after <BrowserRouter><AuthProvider><AppRouter/> mounted at a URL the
\* visitor opened directly: user = null, loading = true, /auth/me in flight.
AuthInit ==
  /\ user = Null
  /\ loading = TRUE
  /\ path \in Paths
  /\ hash \in Hashes
  /\ navFrom = Null
  /\ hasProcessed = FALSE
  /\ session \in Roles \cup {Null}
  /\ authNet = SetToBag({AuthReq("me", Null, Null)})

\* <Navigate to=... replace /> rendered by ProtectedRoute or the fallback route
Redirect ==
  /\ AppRouter \in {"NavigateLogin", "NavigateHome"}
  /\ path' = IF AppRouter = "NavigateLogin" THEN "/login" ELSE "/"
  /\ navFrom' = IF AppRouter = "NavigateLogin" THEN path ELSE Null
  /\ hash' = ""
  /\ hasProcessed' = FALSE
  /\ UNCHANGED <<user, loading, session, authNet>>

\* the visitor follows a link (client-side navigation, no reload); the page
\* left is unmounted, and with an AuthCallback its ref is gone
FollowLink(p) ==
  /\ p # path \/ hash # ""
  /\ path' = p
  /\ navFrom' = Null
  /\ hash' = ""
  /\ hasProcessed' = FALSE
  /\ UNCHANGED <<user, loading, session, authNet>>

\* Login.handleSubmit with isLogin = true: login(email, password) is called.
\* role is the role of the account the credentials belong to, Null for bad ones.
LoginSubmit(role) ==
  /\ AppRouter = "Login"
  /\ AuthPending < MaxAuthReq
  /\ authNet' = Send(authNet, AuthReq("login", role, IF navFrom # Null THEN navFrom ELSE "/"))
  /\ UNCHANGED <<user, loading, path, hash, navFrom, hasProcessed, session>>

\* google-callback requests in flight
GooglePending ==
  LET S == {r \in BagToSet(authNet) : r.ep = "google"}
  IN  BagCardinality([r \in S |-> CopiesIn(r, authNet)])

\* processAuth up to its `await googleLogin(sessionId)`
ProcessAuthBody(role) ==
  IF SessionIdMatch(hash) = Null
    THEN /\ path' = "/login"
         /\ hash' = ""
         /\ navFrom' = Null
         /\ hasProcessed' = FALSE
         /\ UNCHANGED authNet
    ELSE /\ GooglePending < MaxGoogleReq
         /\ authNet' = Send(authNet, AuthReq("google", role, "/"))
         /\ hasProcessed' = TRUE
         /\ UNCHANGED <<path, hash, navFrom>>

\* AuthCallback's effect without the hasProcessed guard
ProcessAuthEveryRun(role) ==
  /\ AppRouter = "AuthCallback"
  /\ ProcessAuthBody(role)
  /\ UNCHANGED <<user, loading, session>>

\* AuthCallback's effect; it runs after the mount and again whenever React
\* re-runs it (StrictMode, a new googleLogin function after AuthProvider
\* re-rendered).  A run that finds hasProcessed.current set returns at once.
\* The ref lives as long as that AuthCallback is mounted: every navigation
\* leaves it, and a later mount starts with a fresh ref.
ProcessAuth(role) ==
  /\ AppRouter = "AuthCallback"
  /\ IF hasProcessed
       THEN UNCHANGED <<path, hash, navFrom, hasProcessed, authNet>>
       ELSE ProcessAuthBody(role)
  /\ UNCHANGED <<user, loading, session>>

\* Navigation.handleLogout: logout() is called
LogoutClick ==
  /\ isAuthenticated
  /\ AppRouter \in {"Home", "StudentDashboard", "EducatorDashboard", "AdminDashboard"}
  /\ AuthPending < MaxAuthReq
  /\ authNet' = Send(authNet, AuthReq("logout", Null, "/"))
  /\ UNCHANGED <<user, loading, path, hash, navFrom, hasProcessed, session>>

\* The backend handles a request: the answer depends on the session the
\* request carries when it is handled.
AuthServer(r) ==
  /\ BagIn(r, authNet)
  /\ r.st = "sent"
  /\ \/ /\ r.ep = "me"
        /\ authNet' = Answer(authNet, r,
             [r EXCEPT !.st = IF session # Null THEN "ok" ELSE "fail", !.role = session])
        /\ UNCHANGED session
     \/ /\ r.ep \in {"login", "google"}
        /\ authNet' = Answer(authNet, r, [r EXCEPT !.st = IF r.role # Null THEN "ok" ELSE "fail"])
        /\ session' = IF r.role # Null THEN r.role ELSE session
     \/ /\ r.ep = "logout"
        /\ authNet' = Answer(authNet, r, [r EXCEPT !.st = "ok"])
        /\ session' = Null
     \/ \* the backend answers 5xx without acting
        /\ authNet' = Answer(authNet, r, [r EXCEPT !.st = "fail", !.role = Null])
        /\ UNCHANGED session
  /\ UNCHANGED <<user, loading, path, hash, navFrom, hasProcessed>>

\* The fetch of request r settles: with the response, or rejected (netErr)
Settles(r, ep, netErr) ==
  /\ BagIn(r, authNet)
  /\ r.ep = ep
  /\ netErr \/ r.st \in {"ok", "fail"}

\* checkAuth calling itself again after a failure
CheckAuthSettleRetry(r, netErr) ==
  /\ Settles(r, "me", netErr)
  /\ user' = IF ~netErr /\ r.st = "ok" THEN r.role ELSE Null
  /\ loading' = FALSE
  /\ authNet' = IF ~netErr /\ r.st = "ok" THEN Drop(authNet, r)
                ELSE Answer(authNet, r, AuthReq("me", Null, Null))
  /\ UNCHANGED <<path, hash, navFrom, hasProcessed, session>>

\* checkAuth with setLoading(false) on the 2xx path only instead of in finally
CheckAuthSettleNoFinally(r, netErr) ==
  /\ Settles(r, "me", netErr)
  /\ user' = IF ~netErr /\ r.st = "ok" THEN r.role ELSE Null
  /\ loading' = IF ~netErr /\ r.st = "ok" THEN FALSE ELSE loading
  /\ authNet' = Drop(authNet, r)
  /\ UNCHANGED <<path, hash, navFrom, hasProcessed, session>>

\* checkAuth after its fetch settled: 2xx sets the user, anything else (and a
\* rejected fetch) clears it; finally loading := false.
CheckAuthSettle(r, netErr) ==
  /\ Settles(r, "me", netErr)
  /\ user' = IF ~netErr /\ r.st = "ok" THEN r.role ELSE Null
  /\ loading' = FALSE
  /\ authNet' = Drop(authNet, r)
  /\ UNCHANGED <<path, hash, navFrom, hasProcessed, session>>

\* login() after its fetch settled, followed by the rest of Login.handleSubmit
LoginSettle(r, netErr) ==
  /\ Settles(r, "login", netErr)
  /\ authNet' = Drop(authNet, r)
  /\ IF ~netErr /\ r.st = "ok"
       THEN /\ user' = r.role
            /\ path' = r.from
            /\ hash' = ""
            /\ navFrom' = Null
            /\ hasProcessed' = FALSE
       ELSE UNCHANGED <<user, path, hash, navFrom, hasProcessed>>
  /\ UNCHANGED <<loading, session>>

\* processAuth navigating to '/' whatever the outcome of googleLogin
GoogleLoginSettleAlwaysHome(r, netErr) ==
  /\ Settles(r, "google", netErr)
  /\ authNet' = Drop(authNet, r)
  /\ user' = IF ~netErr /\ r.st = "ok" THEN r.role ELSE user
  /\ path' = "/"
  /\ hash' = ""
  /\ navFrom' = Null
  /\ hasProcessed' = FALSE
  /\ UNCHANGED <<loading, session>>

\* googleLogin() after its fetch settled, followed by the rest of processAuth
GoogleLoginSettle(r, netErr) ==
  /\ Settles(r, "google", netErr)
  /\ authNet' = Drop(authNet, r)
  /\ IF ~netErr /\ r.st = "ok"
       THEN /\ user' = r.role
            /\ path' = "/"
       ELSE /\ path' = "/login"
            /\ UNCHANGED user
  /\ hash' = ""
  /\ navFrom' = Null
  /\ hasProcessed' = FALSE
  /\ UNCHANGED <<loading, session>>

\* logout() clearing the user only when the endpoint answered 2xx
LogoutSettleOkOnly(r, netErr) ==
  /\ Settles(r, "logout", netErr)
  /\ authNet' = Drop(authNet, r)
  /\ IF netErr
       THEN UNCHANGED <<user, path, hash, navFrom, hasProcessed>>
       ELSE /\ user' = IF r.st = "ok" THEN Null ELSE user
            /\ path' = "/"
            /\ hash' = ""
            /\ navFrom' = Null
            /\ hasProcessed' = FALSE
  /\ UNCHANGED <<loading, session>>

\* logout() after its fetch resolved (whatever the status), then navigate('/');
\* a rejected fetch leaves everything as it is
LogoutSettle(r, netErr) ==
  /\ Settles(r, "logout", netErr)
  /\ authNet' = Drop(authNet, r)
  /\ IF netErr
       THEN UNCHANGED <<user, path, hash, navFrom, hasProcessed>>
       ELSE /\ user' = Null
            /\ path' = "/"
            /\ hash' = ""
            /\ navFrom' = Null
            /\ hasProcessed' = FALSE
  /\ UNCHANGED <<loading, session>>

\* ------------------------------------------------------------ api helper
VARIABLES
  apiFn,     \* the helper called: "apiCall" or "publicApiCall"
  apiResp,   \* the response fetch resolved with: [status, body]
  apiOut     \* what the helper did with it: Pending, a returned body or a thrown Error

apiVars == <<apiFn, apiResp, apiOut>>

Undefined == "undefined"

Statuses == {200, 201, 204, 299, 300, 304, 400, 401, 403, 404, 422, 500, 503}

\* Response bodies: text that is not JSON, the JSON value null, a JSON scalar,
\* and JSON objects without detail, with an empty detail and with a detail.
Bodies == {[fmt |-> "notjson", detail |-> Undefined],
           [fmt |-> "null",    detail |-> Undefined],
           [fmt |-> "scalar",  detail |-> Undefined],
           [fmt |-> "object",  detail |-> Undefined],
           [fmt |-> "object",  detail |-> ""],
           [fmt |-> "object",  detail |-> "Not found"]}

Pending == [kind |-> "pending", body |-> [fmt |-> Null, detail |-> Undefined], message |-> Null]
Return(body) == [kind |-> "return", body |-> body, message |-> Null]
Throw(name, message) == [kind |-> name, body |-> [fmt |-> Null, detail |-> Undefined], message |-> message]

\* response.ok
ResponseOk(resp) == resp.status >= 200 /\ resp.status <= 299

\* JavaScript truthiness of a detail value
Truthy(d) == d \notin {Undefined, ""}

\* apiCall / publicApiCall after fetch resolved with resp.  response.json()
\* rejects on a body that is not JSON; reading .detail of null is a TypeError.
ApiCall(resp) ==
  IF ~ResponseOk(resp)
    THEN LET error == IF resp.body.fmt = "notjson"
                        THEN [fmt |-> "object", detail |-> "An error occurred"]
                        ELSE resp.body
         IN  IF error.fmt = "null"
               THEN Throw("TypeError", "Cannot read properties of null (reading 'detail')")
               ELSE Throw("Error", IF Truthy(error.detail) THEN error.detail ELSE "Request failed")
    ELSE IF resp.body.fmt = "notjson"
           THEN Throw("SyntaxError", "Unexpected token")
           ELSE Return(resp.body)

ApiIdle ==
  /\ apiFn = "apiCall"
  /\ apiResp = [status |-> 200, body |-> [fmt |-> "object", detail |-> Undefined]]
  /\ apiOut = Pending

ApiInit ==
  /\ apiFn \in {"apiCall", "publicApiCall"}
  /\ apiResp \in [status : Statuses, body : Bodies]
  /\ apiOut = Pending

\* the helper's continuation after `await fetch(...)`
ApiCallSettle ==
  /\ apiOut = Pending
  /\ apiOut' = ApiCall(apiResp)
  /\ UNCHANGED <<apiFn, apiResp>>

\* the next call of a helper, answered by resp
ApiCallAgain(fn, resp) ==
  /\ apiOut # Pending
  /\ apiFn' = fn
  /\ apiResp' = resp
  /\ apiOut' = Pending

\* --------------------------------------------------------------- Explore
VARIABLES
  exFilters,    \* Explore state `filters`: [search, subject, sort]
  exPage,       \* Explore state `page`
  exArticles,   \* Explore state `articles`: the pages of results it is made of
  exHasMore,    \* Explore state `hasMore`
  exLoading,    \* Explore state `loading`
  exNet,        \* bag of the getArticles requests in flight
  exLastError,  \* the failure last logged by fetchArticles' catch: Null, "http" or "network"
  toasts        \* the messages of the toasts shown so far (sonner)

exVars == <<exFilters, exPage, exArticles, exHasMore, exLoading, exNet, exLastError>>

Searches == {""}
Subjects == {"", "physics"}
Sorts == {"recent", "trending"}
Filters == [search : Searches, subject : Subjects, sort : Sorts]
NoFilters == [search |-> "", subject |-> "", sort |-> "recent"]

\* limit: 12 of fetchArticles' params
PageLimit == 12

\* Backend: how many published articles match a filter (fixed during a visit)
Matching(f) ==
  IF f.sort # "recent" /\ f.subject # "" THEN 0
  ELSE IF f.subject # "" THEN 12
  ELSE IF f.sort # "recent" THEN 20
  ELSE 30

Min(a, b) == IF a < b THEN a ELSE b
Max(a, b) == IF a > b THEN a ELSE b

\* The array GET /articles/ answers for params: it is described by the query
\* it answers and its length.
PageOf(f, pg) ==
  [filters |-> f, page |-> pg, len |-> Min(PageLimit, Max(0, Matching(f) - PageLimit * (pg - 1)))]

\* fetchArticles(resetPage) up to its `await getArticles(params)`, called from
\* a render whose state is filters f and page pg.
FetchArticles(f, pg, resetPage) ==
  /\ exLoading' = TRUE
  /\ exNet' = Send(exNet, [filters |-> f, page |-> IF resetPage THEN 1 ELSE pg,
                           reset |-> resetPage])

ExIdle ==
  /\ exFilters = NoFilters
  /\ exPage = 1
  /\ exArticles = << >>
  /\ exHasMore = TRUE
  /\ exLoading = TRUE
  /\ exNet = EmptyBag
  /\ exLastError = Null

\* Explore mounted: filters come from the URL, the filters effect has run
ExInit ==
  /\ exFilters \in Filters
  /\ exPage = 1
  /\ exArticles = << >>
  /\ exHasMore = TRUE
  /\ exLoading = TRUE
  /\ exNet = SetToBag({[filters |-> exFilters, page |-> 1, reset |-> TRUE]})
  /\ exLastError = Null

ExCanSend == BagCardinality(exNet) < ExMaxInFlight

\* handleFilterChange(key, value), then the filters effect: fetchArticles(true)
ExHandleFilterChange(key, value) ==
  /\ ExCanSend
  /\ value # exFilters[key]
  /\ exFilters' = [exFilters EXCEPT ![key] = value]
  /\ FetchArticles(exFilters', exPage, TRUE)
  /\ UNCHANGED <<exPage, exArticles, exHasMore, exLastError, toasts>>

\* clearFilters: a new filters object, so the filters effect runs in any case
ExClearFilters ==
  /\ ExCanSend
  /\ exFilters' = NoFilters
  /\ FetchArticles(exFilters', exPage, TRUE)
  /\ UNCHANGED <<exPage, exArticles, exHasMore, exLastError, toasts>>

\* handleSearch: the search form is submitted
ExHandleSearch ==
  /\ ExCanSend
  /\ FetchArticles(exFilters, exPage, TRUE)
  /\ UNCHANGED <<exFilters, exPage, exArticles, exHasMore, exLastError, toasts>>

\* loadMore: setPage(prev => prev + 1); fetchArticles(false).  The button is
\* rendered under a non-empty list when hasMore, and disabled while loading.
\* fetchArticles is the one of the current render: it reads the page of that
\* render, not the incremented one.
ExLoadMore ==
  /\ ExCanSend
  /\ exArticles # << >> /\ exHasMore /\ ~exLoading
  /\ exPage < ExMaxPage
  /\ exPage' = exPage + 1
  /\ FetchArticles(exFilters, exPage, FALSE)
  /\ UNCHANGED <<exFilters, exArticles, exHasMore, exLastError, toasts>>

\* fetchArticles after `await getArticles(params)` settled.  outcome is "ok"
\* (2xx: the backend's answer to a GET depends on the query alone), "fail"
\* (non-2xx) or "network" (fetch rejected).
ExFetchSettle(r, outcome) ==
  /\ BagIn(r, exNet)
  /\ exNet' = Drop(exNet, r)
  /\ IF outcome = "ok"
       THEN LET data == PageOf(r.filters, r.page)
            IN  /\ IF r.reset
                     THEN /\ exArticles' = <<data>>
                          /\ exPage' = 1
                     ELSE /\ exArticles' = Append(exArticles, data)
                          /\ UNCHANGED exPage
                /\ exHasMore' = (data.len = PageLimit)
                /\ UNCHANGED exLastError
       ELSE /\ exLastError' = IF outcome = "network" THEN "network" ELSE "http"
            /\ UNCHANGED <<exArticles, exPage, exHasMore>>
  /\ exLoading' = FALSE
  /\ UNCHANGED <<exFilters, toasts>>

\* ------------------------------------------------------ StudentDashboard
VARIABLES
  sdTab,       \* StudentDashboard state `activeTab`
  sdArticles,  \* StudentDashboard state `articles`: Null for the initial [],
               \* else the tab whose list it holds
  sdLoading,   \* StudentDashboard state `loading`
  sdNet,       \* bag of the tab fetches in flight: [tab, latest]
  sdLatest     \* outcome of the fetch issued last: "pending", "ok" or "failed"

sdVars == <<sdTab, sdArticles, sdLoading, sdNet, sdLatest>>

Tabs == {"liked", "bookmarked", "history"}

\* the requests in flight, none of them marked as the one issued last
Unmark(net) ==
  LET S == {[q EXCEPT !.latest = FALSE] : q \in BagToSet(net)}
  IN  [r \in S |-> CopiesIn(r, net) + CopiesIn([r EXCEPT !.latest = TRUE], net)]

\* the fetchArticles effect up to its await: setLoading(true) and the request
\* for tab t, which becomes the one issued last
SdFetchArticles(t) ==
  /\ sdLoading' = TRUE
  /\ sdNet' = Send(Unmark(sdNet), [tab |-> t, latest |-> TRUE])
  /\ sdLatest' = "pending"

SdIdle ==
  /\ sdTab = "liked"
  /\ sdArticles = Null
  /\ sdLoading = TRUE
  /\ sdNet = EmptyBag
  /\ sdLatest = "pending"

\* StudentDashboard mounted: activeTab = 'liked', its fetch is in flight
SdInit ==
  /\ sdTab = "liked"
  /\ sdArticles = Null
  /\ sdLoading = TRUE
  /\ sdNet = SetToBag({[tab |-> "liked", latest |-> TRUE]})
  /\ sdLatest = "pending"

\* a tab button is clicked: setActiveTab(t), then the [activeTab] effect
SdSetActiveTab(t) ==
  /\ t # sdTab
  /\ BagCardinality(sdNet) < SdMaxInFlight
  /\ sdTab' = t
  /\ SdFetchArticles(t)
  /\ UNCHANGED sdArticles

\* fetchArticles after its await settled: "ok", "fail" (non-2xx) or "network"
SdFetchSettle(r, outcome) ==
  /\ BagIn(r, sdNet)
  /\ sdNet' = Drop(sdNet, r)
  /\ sdArticles' = IF outcome = "ok" THEN r.tab ELSE sdArticles
  /\ sdLoading' = FALSE
  /\ sdLatest' = IF r.latest THEN (IF outcome = "ok" THEN "ok" ELSE "failed") ELSE sdLatest
  /\ UNCHANGED sdTab

\* --------------------------------------------------------------- Article
VARIABLES
  arAuth,           \* useAuth().isAuthenticated as the Article page sees it
  arArticle,        \* Article state `article`: Null or the article shown
  arLoading,        \* Article state `loading`
  arIsLiked,        \* Article state `isLiked`
  arLikeCount,      \* Article state `likeCount`
  arIsBookmarked,   \* Article state `isBookmarked`
  arBookmarkCount,  \* Article state `bookmarkCount`
  arPath,           \* where the Article page has navigated to (Null: still on the page)
  arNet,            \* bag of the requests of the Article page in flight
  srvLiked,         \* backend: the user has liked the article
  srvBookmarked,    \* backend: the user has bookmarked the article
  srvOthers         \* backend: [likes, bookmarks] of other users on the article

arVars == <<arAuth, arArticle, arLoading, arIsLiked, arLikeCount, arIsBookmarked,
            arBookmarkCount, arPath, arNet, srvLiked, srvBookmarked, srvOthers>>

B2N(b) == IF b THEN 1 ELSE 0

\* backend: like_count and bookmark_count of the article
SrvLikeCount == srvOthers.likes + B2N(srvLiked)
SrvBookmarkCount == srvOthers.bookmarks + B2N(srvBookmarked)

\* a request of the Article page; flag and count are the answer's fields
ArReq(ep) == [ep |-> ep, st |-> "sent", flag |-> FALSE, count |-> 0, flag2 |-> FALSE, count2 |-> 0]

ArPending(ep) ==
  LET S == {r \in BagToSet(arNet) : r.ep = ep}
  IN  BagCardinality([r \in S |-> CopiesIn(r, arNet)])

ArIdle ==
  /\ arAuth = FALSE
  /\ arArticle = Null
  /\ arLoading = TRUE
  /\ arIsLiked = FALSE
  /\ arLikeCount = 0
  /\ arIsBookmarked = FALSE
  /\ arBookmarkCount = 0
  /\ arPath = Null
  /\ arNet = EmptyBag
  /\ srvLiked = FALSE
  /\ srvBookmarked = FALSE
  /\ srvOthers = [likes |-> 0, bookmarks |-> 0]

\* Article mounted on /article/:id: the fetchData effect has called getArticle(id).
\* Only a signed-in user has likes or bookmarks on the backend.
ArInit ==
  /\ arAuth \in BOOLEAN
  /\ arArticle = Null
  /\ arLoading = TRUE
  /\ arIsLiked = FALSE
  /\ arLikeCount = 0
  /\ arIsBookmarked = FALSE
  /\ arBookmarkCount = 0
  /\ arPath = Null
  /\ arNet = SetToBag({ArReq("article")})
  /\ srvLiked \in (IF arAuth THEN BOOLEAN ELSE {FALSE})
  /\ srvBookmarked \in (IF arAuth THEN BOOLEAN ELSE {FALSE})
  /\ srvOthers \in [likes : 0..MaxOthers, bookmarks : 0..MaxOthers]
  /\ toasts = {}

\* the backend handles a request of the Article page.  POST .../like and
\* POST .../bookmark toggle and answer with the new state and count.
ArServer(r, status) ==
  /\ BagIn(r, arNet)
  /\ r.st = "sent"
  /\ IF status = "fail"
       THEN /\ arNet' = Answer(arNet, r, [r EXCEPT !.st = "fail"])
            /\ UNCHANGED <<srvLiked, srvBookmarked>>
       ELSE CASE r.ep = "article" ->
                   /\ arNet' = Answer(arNet, r, [r EXCEPT !.st = "ok",
                         !.flag = srvLiked, !.count = SrvLikeCount,
                         !.flag2 = srvBookmarked, !.count2 = SrvBookmarkCount])
                   /\ UNCHANGED <<srvLiked, srvBookmarked>>
              [] r.ep = "related" ->
                   /\ arNet' = Answer(arNet, r, [r EXCEPT !.st = "ok"])
                   /\ UNCHANGED <<srvLiked, srvBookmarked>>
              [] r.ep = "like" ->
                   /\ srvLiked' = ~srvLiked
                   /\ arNet' = Answer(arNet, r, [r EXCEPT !.st = "ok",
                         !.flag = ~srvLiked, !.count = srvOthers.likes + B2N(~srvLiked)])
                   /\ UNCHANGED srvBookmarked
              [] r.ep = "bookmark" ->
                   /\ srvBookmarked' = ~srvBookmarked
                   /\ arNet' = Answer(arNet, r, [r EXCEPT !.st = "ok",
                         !.flag = ~srvBookmarked, !.count = srvOthers.bookmarks + B2N(~srvBookmarked)])
                   /\ UNCHANGED srvLiked
  /\ UNCHANGED <<arAuth, arArticle, arLoading, arIsLiked, arLikeCount, arIsBookmarked,
                 arBookmarkCount, arPath, srvOthers, toasts>>

ArSettles(r, ep, netErr) ==
  /\ BagIn(r, arNet)
  /\ r.ep = ep
  /\ netErr \/ r.st \in {"ok", "fail"}

\* fetchData's catch and finally
ArFetchFailed ==
  /\ toasts' = toasts \cup {"Article not found"}
  /\ arPath' = "/explore"
  /\ arLoading' = FALSE

\* fetchData after `await getArticle(id)` settled
ArGetArticleSettle(r, netErr) ==
  /\ ArSettles(r, "article", netErr)
  /\ IF ~netErr /\ r.st = "ok"
       THEN /\ arArticle' = "article_1"
            /\ arIsLiked' = r.flag
            /\ arLikeCount' = r.count
            /\ arIsBookmarked' = r.flag2
            /\ arBookmarkCount' = r.count2
            /\ arNet' = Send(Drop(arNet, r), ArReq("related"))
            /\ UNCHANGED <<arLoading, arPath, toasts>>
       ELSE /\ ArFetchFailed
            /\ arNet' = Drop(arNet, r)
            /\ UNCHANGED <<arArticle, arIsLiked, arLikeCount, arIsBookmarked, arBookmarkCount>>
  /\ UNCHANGED <<arAuth, srvLiked, srvBookmarked, srvOthers>>

\* fetchData with a catch of its own around getRelatedArticles: a failure
\* only leaves the related list empty
ArGetRelatedSettleOwnCatch(r, netErr) ==
  /\ ArSettles(r, "related", netErr)
  /\ arNet' = Drop(arNet, r)
  /\ arLoading' = FALSE
  /\ UNCHANGED <<arPath, toasts>>
  /\ UNCHANGED <<arAuth, arArticle, arIsLiked, arLikeCount, arIsBookmarked, arBookmarkCount,
                 srvLiked, srvBookmarked, srvOthers>>

\* fetchData after `await getRelatedArticles(articleData.article_id)` settled
ArGetRelatedSettle(r, netErr) ==
  /\ ArSettles(r, "related", netErr)
  /\ arNet' = Drop(arNet, r)
  /\ IF ~netErr /\ r.st = "ok"
       THEN /\ arLoading' = FALSE
            /\ UNCHANGED <<arPath, toasts>>
       ELSE ArFetchFailed
  /\ UNCHANGED <<arAuth, arArticle, arIsLiked, arLikeCount, arIsBookmarked, arBookmarkCount,
                 srvLiked, srvBookmarked, srvOthers>>

\* the like and bookmark buttons are rendered once loading is false and article is set
ArButtonsShown == ~arLoading /\ arArticle # Null /\ arPath = Null

\* handleLike up to its `await likeArticle(...)`
ArHandleLikeOptimistic ==
  /\ ArButtonsShown
  /\ IF ~arAuth
       THEN /\ toasts' = toasts \cup {"Please login to like articles"}
            /\ UNCHANGED <<arNet, arIsLiked, arLikeCount>>
       ELSE /\ ArPending("like") + ArPending("bookmark") < ArMaxInFlight
            /\ arNet' = Send(arNet, ArReq("like"))
            /\ arIsLiked' = ~arIsLiked
            /\ arLikeCount' = IF arIsLiked THEN arLikeCount - 1 ELSE arLikeCount + 1
            /\ UNCHANGED toasts
  /\ UNCHANGED <<arAuth, arArticle, arLoading, arIsBookmarked,
                 arBookmarkCount, arPath, srvLiked, srvBookmarked, srvOthers>>

ArHandleLike ==
  /\ ArButtonsShown
  /\ IF ~arAuth
       THEN /\ toasts' = toasts \cup {"Please login to like articles"}
            /\ UNCHANGED arNet
       ELSE /\ ArPending("like") + ArPending("bookmark") < ArMaxInFlight
            /\ arNet' = Send(arNet, ArReq("like"))
            /\ UNCHANGED toasts
  /\ UNCHANGED <<arAuth, arArticle, arLoading, arIsLiked, arLikeCount, arIsBookmarked,
                 arBookmarkCount, arPath, srvLiked, srvBookmarked, srvOthers>>

\* handleLike after `await likeArticle(...)` settled
ArLikeSettle(r, netErr) ==
  /\ ArSettles(r, "like", netErr)
  /\ arNet' = Drop(arNet, r)
  /\ IF ~netErr /\ r.st = "ok"
       THEN /\ arIsLiked' = r.flag
            /\ arLikeCount' = r.count
            /\ toasts' = toasts \cup {IF r.flag THEN "Article liked!" ELSE "Like removed"}
       ELSE /\ toasts' = toasts \cup {"Failed to like article"}
            /\ UNCHANGED <<arIsLiked, arLikeCount>>
  /\ UNCHANGED <<arAuth, arArticle, arLoading, arIsBookmarked, arBookmarkCount, arPath,
                 srvLiked, srvBookmarked, srvOthers>>

\* handleBookmark up to its `await bookmarkArticle(...)`
ArHandleBookmark ==
  /\ ArButtonsShown
  /\ IF ~arAuth
       THEN /\ toasts' = toasts \cup {"Please login to bookmark articles"}
            /\ UNCHANGED arNet
       ELSE /\ ArPending("like") + ArPending("bookmark") < ArMaxInFlight
            /\ arNet' = Send(arNet, ArReq("bookmark"))
            /\ UNCHANGED toasts
  /\ UNCHANGED <<arAuth, arArticle, arLoading, arIsLiked, arLikeCount, arIsBookmarked,
                 arBookmarkCount, arPath, srvLiked, srvBookmarked, srvOthers>>

\* handleBookmark flipping isBookmarked itself when the request failed
ArBookmarkSettleToggleOnFail(r, netErr) ==
  /\ ArSettles(r, "bookmark", netErr)
  /\ arNet' = Drop(arNet, r)
  /\ IF ~netErr /\ r.st = "ok"
       THEN /\ arIsBookmarked' = r.flag
            /\ arBookmarkCount' = r.count
            /\ toasts' = toasts \cup {IF r.flag THEN "Article bookmarked!" ELSE "Bookmark removed"}
       ELSE /\ toasts' = toasts \cup {"Failed to bookmark article"}
            /\ arIsBookmarked' = ~arIsBookmarked
            /\ UNCHANGED arBookmarkCount
  /\ UNCHANGED <<arAuth, arArticle, arLoading, arIsLiked, arLikeCount, arPath,
                 srvLiked, srvBookmarked, srvOthers>>

\* handleBookmark after `await bookmarkArticle(...)` settled
ArBookmarkSettle(r, netErr) ==
  /\ ArSettles(r, "bookmark", netErr)
  /\ arNet' = Drop(arNet, r)
  /\ IF ~netErr /\ r.st = "ok"
       THEN /\ arIsBookmarked' = r.flag
            /\ arBookmarkCount' = r.count
            /\ toasts' = toasts \cup {IF r.flag THEN "Article bookmarked!" ELSE "Bookmark removed"}
       ELSE /\ toasts' = toasts \cup {"Failed to bookmark article"}
            /\ UNCHANGED <<arIsBookmarked, arBookmarkCount>>
  /\ UNCHANGED <<arAuth, arArticle, arLoading, arIsLiked, arLikeCount, arPath,
                 srvLiked, srvBookmarked, srvOthers>>

\* ---------------------------------------------------------- ArticleEditor
VARIABLES
  aeFormData,  \* ArticleEditor state `formData`
  aeFetch,     \* the mount effect's Promise.all: "pending" or "settled"
  aeLoading,   \* ArticleEditor state `loading`
  aeNet,       \* bag of the createArticle requests in flight
  aePath,      \* where the editor has navigated to (Null: still on the editor)
  aeId,        \* useParams().id: the :id of /educator/edit/:id, Null on /educator/create
  lastToast    \* the sonner call made by the step just taken: [kind, message], or NoToast

aeVars == <<aeFormData, aeFetch, aeLoading, aeNet, aePath, aeId>>

NoToast == [kind |-> Null, message |-> Null]
Toast(kind, message) == [kind |-> kind, message |-> message]

\* excerpt: formData.content.substring(0, 200)
ExcerptLimit == 200

\* A string is a prefix of one of a few fixed texts: "spaces" consists of
\* whitespace only, the other texts of letters only.  The empty string is the
\* prefix of length 0 of any of them.
Str(text, len) == [text |-> IF len = 0 THEN "" ELSE text, len |-> len]
EmptyStr == Str("", 0)
\* null where a string is expected
NullStr == [text |-> Null, len |-> 0]

\* String.prototype.trim
Trim(s) == IF s.text = "spaces" THEN EmptyStr ELSE s

\* String.prototype.substring(0, end)
Substring(s, end) == Str(s.text, Min(s.len, end))

Titles == {EmptyStr, Str("spaces", 2), Str("title", 5)}
Contents == {EmptyStr, Str("spaces", 3), Str("lorem", 1), Str("lorem", ExcerptLimit + 1)}
Excerpts == {EmptyStr, Str("summary", 7)}
CoverImages == {EmptyStr, Str("https://img", 11)}
SubjectIds == {"", "physics"}
TagTexts == {"", "a, b"}

\* formData.tags.split(',').map(t => t.trim()).filter(Boolean)
SplitTags(t) == IF t = "a, b" THEN <<"a", "b">> ELSE << >>

FormValues(name) ==
  CASE name = "title" -> Titles
    [] name = "content" -> Contents
    [] name = "excerpt" -> Excerpts
    [] name = "cover_image" -> CoverImages
    [] name = "subject_id" -> SubjectIds
    [] name = "tags" -> TagTexts
    [] name = "originality_confirmed" -> BOOLEAN

FormFields == {"title", "content", "excerpt", "cover_image", "subject_id", "tags",
               "originality_confirmed"}

InitialFormData ==
  [title |-> EmptyStr, content |-> EmptyStr, excerpt |-> EmptyStr, cover_image |-> EmptyStr,
   subject_id |-> "", tags |-> "", originality_confirmed |-> FALSE]

\* the checks of handleSubmit without the trim of title and content
ValidateNoTrim(fd, status) ==
  IF fd.title = EmptyStr THEN "Please enter a title"
  ELSE IF fd.content = EmptyStr THEN "Please enter content"
  ELSE IF fd.subject_id = "" THEN "Please select a subject"
  ELSE IF status = "pending" /\ ~fd.originality_confirmed THEN "Please confirm content originality"
  ELSE Null

\* the checks at the head of handleSubmit: the message of the first one that
\* fails, Null when all pass
Validate(fd, status) ==
  IF Trim(fd.title) = EmptyStr THEN "Please enter a title"
  ELSE IF Trim(fd.content) = EmptyStr THEN "Please enter content"
  ELSE IF fd.subject_id = "" THEN "Please select a subject"
  ELSE IF status = "pending" /\ ~fd.originality_confirmed THEN "Please confirm content originality"
  ELSE Null

\* articleData with the whole content as the fallback of an empty excerpt
ArticleDataWholeContent(fd, status) ==
  [title |-> fd.title,
   content |-> fd.content,
   excerpt |-> IF fd.excerpt # EmptyStr THEN fd.excerpt ELSE fd.content,
   cover_image |-> IF fd.cover_image # EmptyStr THEN fd.cover_image ELSE NullStr,
   subject_id |-> fd.subject_id,
   tags |-> SplitTags(fd.tags),
   status |-> status,
   originality_confirmed |-> fd.originality_confirmed]

\* the articleData object handleSubmit builds
ArticleData(fd, status) ==
  [title |-> fd.title,
   content |-> fd.content,
   excerpt |-> IF fd.excerpt # EmptyStr THEN fd.excerpt ELSE Substring(fd.content, ExcerptLimit),
   cover_image |-> IF fd.cover_image # EmptyStr THEN fd.cover_image ELSE NullStr,
   subject_id |-> fd.subject_id,
   tags |-> SplitTags(fd.tags),
   status |-> status,
   originality_confirmed |-> fd.originality_confirmed]

AeIdle ==
  /\ aeFormData = InitialFormData
  /\ aeFetch = "pending"
  /\ aeLoading = FALSE
  /\ aeNet = EmptyBag
  /\ aePath = Null
  /\ aeId = Null

\* the route parameter the editor is mounted with
RouteIds == {Null, "a1"}

\* ArticleEditor mounted on /educator/create or /educator/edit/:id: empty
\* form, the mount effect's requests in flight
AeInit ==
  /\ aeFormData = InitialFormData
  /\ aeFetch = "pending"
  /\ aeLoading = FALSE
  /\ aeNet = EmptyBag
  /\ aePath = Null
  /\ aeId \in RouteIds
  /\ lastToast = NoToast

\* the mount effect after Promise.all([getMyProfile(), getSubjects()]) settled;
\* first is the subject_id of the profile's first subject, "" for a profile
\* without subjects
AeFetchDataSettle(outcome, first) ==
  /\ aePath = Null
  /\ aeFetch = "pending"
  /\ aeFetch' = "settled"
  /\ IF outcome = "ok"
       THEN /\ aeFormData' = IF first # "" THEN [aeFormData EXCEPT !.subject_id = first]
                                           ELSE aeFormData
            /\ lastToast' = NoToast
       ELSE /\ lastToast' = Toast("error", "Failed to load data")
            /\ UNCHANGED aeFormData
  /\ UNCHANGED <<aeLoading, aeNet, aePath, aeId>>

\* handleChange: the field `name` of the form is set to value
AeHandleChange(name, value) ==
  /\ aePath = Null
  /\ value \in FormValues(name)
  /\ aeFormData' = [aeFormData EXCEPT ![name] = value]
  /\ lastToast' = NoToast
  /\ UNCHANGED <<aeFetch, aeLoading, aeNet, aePath, aeId>>

\* handleSubmit(status) up to its `await createArticle(articleData)`; both
\* buttons are disabled while loading.  The call is createArticle on either
\* route: id is read from useParams and not used.
AeHandleSubmit(status) ==
  /\ aePath = Null
  /\ ~aeLoading
  /\ IF Validate(aeFormData, status) # Null
       THEN /\ lastToast' = Toast("error", Validate(aeFormData, status))
            /\ UNCHANGED <<aeLoading, aeNet>>
       ELSE /\ aeLoading' = TRUE
            /\ aeNet' = Send(aeNet, [ep |-> "createArticle", data |-> ArticleData(aeFormData, status)])
            /\ lastToast' = NoToast
  /\ UNCHANGED <<aeFormData, aeFetch, aePath, aeId>>

\* handleSubmit after `await createArticle(articleData)` settled: outcome is
\* "ok", "flagged" (2xx with is_flagged), "fail" (non-2xx) or "network"
AeSubmitSettle(r, outcome) ==
  /\ BagIn(r, aeNet)
  /\ aeNet' = Drop(aeNet, r)
  /\ CASE outcome = "ok" ->
            /\ lastToast' = Toast("success", IF r.data.status = "pending"
                                               THEN "Article submitted for review"
                                               ELSE "Draft saved")
            /\ aePath' = "/educator"
       [] outcome = "flagged" ->
            /\ lastToast' = Toast("warning", "Article created but flagged")
            /\ aePath' = "/educator"
       [] OTHER ->
            /\ lastToast' = Toast("error", IF outcome = "fail" THEN "Request failed"
                                             ELSE "Failed to fetch")
            /\ UNCHANGED aePath
  /\ aeLoading' = FALSE
  /\ UNCHANGED <<aeFormData, aeFetch, aeId>>

\* ------------------------------------------------------ EducatorDashboard
VARIABLES
  edTab,       \* EducatorDashboard state `activeTab`
  edFilter,    \* EducatorDashboard state `articleFilter`
  edArticles,  \* EducatorDashboard state `articles`: the ids of the articles listed
  edNet,       \* bag of the getMyArticles and deleteArticle requests in flight
  edDeleted,   \* ids whose delete the page has seen succeed since the list was last fetched
  srvMine      \* backend: the ids of the educator's articles

edVars == <<edTab, edFilter, edArticles, edNet, edDeleted, srvMine>>

ArticleIds == {"a1", "a2", "a3"}

\* article.status of the educator's articles (fixed while the page is open)
StatusOf(a) == CASE a = "a1" -> "draft" [] a = "a2" -> "pending" [] OTHER -> "published"

ArticleFilters == {"all", "draft"}

\* backend: the answer of GET /educators/me/articles?status=f
MyArticles(f) == {a \in srvMine : f = "all" \/ StatusOf(a) = f}

\* a request of the dashboard: arg is the status filter of a list request and
\* the article id of a delete, list the `articles` of the render that sent a
\* delete
EdReq(ep, arg, closure) == [ep |-> ep, st |-> "sent", arg |-> arg, list |-> closure]

EdPending(ep) ==
  LET S == {r \in BagToSet(edNet) : r.ep = ep}
  IN  BagCardinality([r \in S |-> CopiesIn(r, edNet)])

EdIdle ==
  /\ edTab = "overview"
  /\ edFilter = "all"
  /\ edArticles = {}
  /\ edNet = EmptyBag
  /\ edDeleted = {}
  /\ srvMine = ArticleIds

\* EducatorDashboard mounted: overview tab, articles = []
EdInit ==
  /\ edTab = "overview"
  /\ edFilter = "all"
  /\ edArticles = {}
  /\ edNet = EmptyBag
  /\ edDeleted = {}
  /\ srvMine = ArticleIds
  /\ lastToast = NoToast

\* the [activeTab, articleFilter] effect for tab t and filter f
EdFetchArticles(t, f) ==
  IF t = "articles"
    THEN /\ EdPending("list") < EdMaxFetch
         /\ edNet' = Send(edNet, EdReq("list", f, {}))
    ELSE UNCHANGED edNet

\* a tab button is clicked
EdSetActiveTab(t) ==
  /\ t # edTab
  /\ edTab' = t
  /\ EdFetchArticles(t, edFilter)
  /\ lastToast' = NoToast
  /\ UNCHANGED <<edFilter, edArticles, edDeleted, srvMine>>

\* the status filter of the articles tab is changed
EdSetArticleFilter(f) ==
  /\ edTab = "articles"
  /\ f # edFilter
  /\ edFilter' = f
  /\ EdFetchArticles(edTab, f)
  /\ lastToast' = NoToast
  /\ UNCHANGED <<edTab, edArticles, edDeleted, srvMine>>

\* the backend handles a deleteArticle request
EdServer(r, status) ==
  /\ BagIn(r, edNet)
  /\ r.ep = "delete"
  /\ r.st = "sent"
  /\ IF status = "fail"
       THEN /\ edNet' = Answer(edNet, r, [r EXCEPT !.st = "fail"])
            /\ UNCHANGED srvMine
       ELSE /\ r.arg \in srvMine
            /\ srvMine' = srvMine \ {r.arg}
            /\ edNet' = Answer(edNet, r, [r EXCEPT !.st = "ok"])
  /\ UNCHANGED <<edTab, edFilter, edArticles, edDeleted, lastToast>>

EdSettles(r, ep, netErr) ==
  /\ BagIn(r, edNet)
  /\ r.ep = ep
  /\ netErr \/ r.st \in {"ok", "fail"}

\* fetchArticles after `await getMyArticles(...)` settled: outcome is "ok"
\* (the backend answers the GET when the response is due), "fail" (non-2xx)
\* or "network"
EdListSettle(r, outcome) ==
  /\ BagIn(r, edNet)
  /\ r.ep = "list"
  /\ edNet' = Drop(edNet, r)
  /\ IF outcome = "ok"
       THEN /\ edArticles' = MyArticles(r.arg)
            /\ edDeleted' = {}
       ELSE UNCHANGED <<edArticles, edDeleted>>
  /\ lastToast' = NoToast
  /\ UNCHANGED <<edTab, edFilter, srvMine>>

\* handleDeleteArticle sending the request whatever window.confirm returned
EdHandleDeleteArticleNoConfirm(a, confirmed) ==
  /\ edTab = "articles"
  /\ a \in edArticles
  /\ StatusOf(a) # "published"
  /\ EdPending("delete") < EdMaxInFlight
  /\ edNet' = Send(edNet, EdReq("delete", a, edArticles))
  /\ lastToast' = NoToast
  /\ UNCHANGED <<edTab, edFilter, edArticles, edDeleted, srvMine>>

\* handleDeleteArticle(a) up to its `await deleteArticle(articleId)`.  The
\* button is rendered in the articles tab for a listed article whose status is
\* not 'published'; confirmed is what window.confirm returned.  The handler
\* is the one of the current render: its `articles` is the list of that render.
EdHandleDeleteArticle(a, confirmed) ==
  /\ edTab = "articles"
  /\ a \in edArticles
  /\ StatusOf(a) # "published"
  /\ IF ~confirmed
       THEN UNCHANGED edNet
       ELSE /\ EdPending("delete") < EdMaxInFlight
            /\ edNet' = Send(edNet, EdReq("delete", a, edArticles))
  /\ lastToast' = NoToast
  /\ UNCHANGED <<edTab, edFilter, edArticles, edDeleted, srvMine>>

\* handleDeleteArticle after `await deleteArticle(articleId)` settled
EdDeleteSettle(r, netErr) ==
  /\ EdSettles(r, "delete", netErr)
  /\ edNet' = Drop(edNet, r)
  /\ IF ~netErr /\ r.st = "ok"
       THEN /\ edArticles' = r.list \ {r.arg}
            /\ edDeleted' = edDeleted \cup {r.arg}
            /\ lastToast' = Toast("success", "Article deleted")
       ELSE /\ lastToast' = Toast("error", IF netErr THEN "Failed to fetch" ELSE "Request failed")
            /\ UNCHANGED <<edArticles, edDeleted>>
  /\ UNCHANGED <<edTab, edFilter, srvMine>>

\* ----------------------------------------------------------------- Login
VARIABLES
  lgIsLogin,     \* Login state `isLogin`
  lgShowOtp,     \* Login state `showOtp`
  lgEmail,       \* Login state `email`
  lgFormEmail,   \* Login state `formData.email`
  lgLoading,     \* Login state `loading`
  lgNet,         \* bag of the login, register and verify-otp requests in flight
  lgRegistered   \* the email of the register call the page saw succeed last (Null: none)

lgVars == <<lgIsLogin, lgShowOtp, lgEmail, lgFormEmail, lgLoading, lgNet, lgRegistered>>

Emails == {"a@x.io", "b@x.io"}

\* const from = location.state?.from?.pathname || '/'
From == IF navFrom # Null THEN navFrom ELSE "/"

LgIdle ==
  /\ lgIsLogin = TRUE
  /\ lgShowOtp = FALSE
  /\ lgEmail = ""
  /\ lgFormEmail = ""
  /\ lgLoading = FALSE
  /\ lgNet = EmptyBag
  /\ lgRegistered = Null

\* The session check has ended without a user; the visitor has opened /login
\* or a guarded route (from which ProtectedRoute redirects to /login).
LgInit ==
  /\ user = Null
  /\ loading = FALSE
  /\ path \in ProtectedPaths \cup {"/login"}
  /\ hash = ""
  /\ navFrom = Null
  /\ hasProcessed = FALSE
  /\ session = Null
  /\ authNet = EmptyBag
  /\ LgIdle
  /\ lastToast = NoToast

\* the form (not the OTP screen) of the mounted Login page is shown
LgFormShown == AppRouter = "Login" /\ ~lgShowOtp

\* handleChange on the email input
LgHandleChange(e) ==
  /\ LgFormShown
  /\ lgFormEmail' = e
  /\ lastToast' = NoToast
  /\ UNCHANGED <<lgIsLogin, lgShowOtp, lgEmail, lgLoading, lgNet, lgRegistered, user, path, navFrom>>

\* the "Sign up" / "Sign in" switch: setIsLogin(!isLogin)
LgToggleMode ==
  /\ LgFormShown
  /\ lgIsLogin' = ~lgIsLogin
  /\ lastToast' = NoToast
  /\ UNCHANGED <<lgShowOtp, lgEmail, lgFormEmail, lgLoading, lgNet, lgRegistered, user, path, navFrom>>

\* "Back to signup": setShowOtp(false)
LgBackToSignup ==
  /\ AppRouter = "Login"
  /\ lgShowOtp
  /\ lgShowOtp' = FALSE
  /\ lastToast' = NoToast
  /\ UNCHANGED <<lgIsLogin, lgEmail, lgFormEmail, lgLoading, lgNet, lgRegistered, user, path, navFrom>>

\* handleSubmit up to its await: login(...) or register(...) is called with
\* the form's email (a required input).  role is the role of the account the
\* credentials belong to.
LgHandleSubmit(role) ==
  /\ LgFormShown
  /\ ~lgLoading
  /\ lgFormEmail # ""
  /\ lgLoading' = TRUE
  /\ lgNet' = Send(lgNet, [ep |-> IF lgIsLogin THEN "login" ELSE "register",
                           email |-> lgFormEmail,
                           role |-> IF lgIsLogin THEN role ELSE "student",
                           from |-> From])
  /\ lastToast' = NoToast
  /\ UNCHANGED <<lgIsLogin, lgShowOtp, lgEmail, lgFormEmail, lgRegistered, user, path, navFrom>>

\* handleSubmit navigating to '/' after a login instead of to `from`
LgSubmitSettleHome(r, outcome) ==
  /\ BagIn(r, lgNet)
  /\ r.ep \in {"login", "register"}
  /\ lgNet' = Drop(lgNet, r)
  /\ lgLoading' = FALSE
  /\ IF outcome = "ok"
       THEN IF r.ep = "login"
              THEN /\ user' = r.role
                   /\ lastToast' = Toast("success", "Welcome back!")
                   /\ path' = "/"
                   /\ navFrom' = Null
                   /\ UNCHANGED <<lgEmail, lgShowOtp, lgRegistered>>
              ELSE /\ lgEmail' = r.email
                   /\ lgShowOtp' = TRUE
                   /\ lgRegistered' = r.email
                   /\ lastToast' = Toast("success", "OTP sent to your email")
                   /\ UNCHANGED <<user, path, navFrom>>
       ELSE /\ lastToast' = Toast("error", IF outcome = "network" THEN "Failed to fetch"
                                             ELSE IF r.ep = "login" THEN "Login failed"
                                             ELSE "Registration failed")
            /\ UNCHANGED <<user, path, navFrom, lgEmail, lgShowOtp, lgRegistered>>
  /\ UNCHANGED <<lgIsLogin, lgFormEmail>>

\* handleSubmit calling setEmail with the email input's current value
LgSubmitSettleCurrentEmail(r, outcome) ==
  /\ BagIn(r, lgNet)
  /\ r.ep \in {"login", "register"}
  /\ lgNet' = Drop(lgNet, r)
  /\ lgLoading' = FALSE
  /\ IF outcome = "ok"
       THEN IF r.ep = "login"
              THEN /\ user' = r.role
                   /\ lastToast' = Toast("success", "Welcome back!")
                   /\ path' = r.from
                   /\ navFrom' = Null
                   /\ UNCHANGED <<lgEmail, lgShowOtp, lgRegistered>>
              ELSE /\ lgEmail' = lgFormEmail
                   /\ lgShowOtp' = TRUE
                   /\ lgRegistered' = r.email
                   /\ lastToast' = Toast("success", "OTP sent to your email")
                   /\ UNCHANGED <<user, path, navFrom>>
       ELSE /\ lastToast' = Toast("error", IF outcome = "network" THEN "Failed to fetch"
                                             ELSE IF r.ep = "login" THEN "Login failed"
                                             ELSE "Registration failed")
            /\ UNCHANGED <<user, path, navFrom, lgEmail, lgShowOtp, lgRegistered>>
  /\ UNCHANGED <<lgIsLogin, lgFormEmail>>

\* handleSubmit after `await login(...)` or `await register(...)` settled:
\* outcome is "ok" (2xx), "fail" (non-2xx) or "network" (fetch rejected).
\* formData and from are the ones of the render that submitted.
LgSubmitSettle(r, outcome) ==
  /\ BagIn(r, lgNet)
  /\ r.ep \in {"login", "register"}
  /\ lgNet' = Drop(lgNet, r)
  /\ lgLoading' = FALSE
  /\ IF outcome = "ok"
       THEN IF r.ep = "login"
              THEN /\ user' = r.role
                   /\ lastToast' = Toast("success", "Welcome back!")
                   /\ path' = r.from
                   /\ navFrom' = Null
                   /\ UNCHANGED <<lgEmail, lgShowOtp, lgRegistered>>
              ELSE /\ lgEmail' = r.email
                   /\ lgShowOtp' = TRUE
                   /\ lgRegistered' = r.email
                   /\ lastToast' = Toast("success", "OTP sent to your email")
                   /\ UNCHANGED <<user, path, navFrom>>
       ELSE /\ lastToast' = Toast("error", IF outcome = "network" THEN "Failed to fetch"
                                             ELSE IF r.ep = "login" THEN "Login failed"
                                             ELSE "Registration failed")
            /\ UNCHANGED <<user, path, navFrom, lgEmail, lgShowOtp, lgRegistered>>
  /\ UNCHANGED <<lgIsLogin, lgFormEmail>>

\* handleOtpSubmit up to its `await verifyOtp(email, otp)`
LgHandleOtpSubmit ==
  /\ AppRouter = "Login"
  /\ lgShowOtp
  /\ ~lgLoading
  /\ lgLoading' = TRUE
  /\ lgNet' = Send(lgNet, [ep |-> "verify", email |-> lgEmail, role |-> "student", from |-> "/"])
  /\ lastToast' = NoToast
  /\ UNCHANGED <<lgIsLogin, lgShowOtp, lgEmail, lgFormEmail, lgRegistered, user, path, navFrom>>

\* handleOtpSubmit after `await verifyOtp(email, otp)` settled
LgOtpSettle(r, outcome) ==
  /\ BagIn(r, lgNet)
  /\ r.ep = "verify"
  /\ lgNet' = Drop(lgNet, r)
  /\ lgLoading' = FALSE
  /\ IF outcome = "ok"
       THEN /\ user' = r.role
            /\ lastToast' = Toast("success", "Email verified! Welcome to TATVGYA")
            /\ path' = "/"
            /\ navFrom' = Null
       ELSE /\ lastToast' = Toast("error", IF outcome = "network" THEN "Failed to fetch"
                                             ELSE "OTP verification failed")
            /\ UNCHANGED <<user, path, navFrom>>
  /\ UNCHANGED <<lgIsLogin, lgShowOtp, lgEmail, lgFormEmail, lgRegistered>>

\* -------------------------------------------------------- AdminDashboard
VARIABLES
  adTab,       \* AdminDashboard state `activeTab`
  adArticles,  \* AdminDashboard state `articles`: the ids of the pending articles listed
  adNet,       \* bag of the getAdminArticles and articleAction requests in flight
  srvPending   \* backend: the ids of the articles with status 'pending'

adVars == <<adTab, adArticles, adNet, srvPending>>

\* the articles waiting for review when the dashboard is opened
PendingIds == {"a1", "a2"}

\* what prompt('Rejection reason:') returns: null when cancelled, else the text
PromptAnswers == {Null, "", "copied"}

\* JavaScript truthiness of what prompt returned
ReasonGiven(reason) == reason # Null /\ reason # ""

\* a request of the dashboard: a list request, or articleAction(arg, action,
\* reason); list is the `articles` of the render whose handler sent it
AdReq(ep, arg, action, reason, closure) ==
  [ep |-> ep, st |-> "sent", arg |-> arg, action |-> action, reason |-> reason, list |-> closure]

AdPending(ep) ==
  LET S == {r \in BagToSet(adNet) : r.ep = ep}
  IN  BagCardinality([r \in S |-> CopiesIn(r, adNet)])

AdIdle ==
  /\ adTab = "overview"
  /\ adArticles = {}
  /\ adNet = EmptyBag
  /\ srvPending = PendingIds

\* AdminDashboard mounted: overview tab, articles = []
AdInit ==
  /\ AdIdle
  /\ lastToast = NoToast

\* a tab button is clicked; the [activeTab] effect fetches the pending
\* articles when the tab is 'articles'
AdSetActiveTab(t) ==
  /\ t # adTab
  /\ adTab' = t
  /\ IF t = "articles"
       THEN /\ AdPending("list") < AdMaxFetch
            /\ adNet' = Send(adNet, AdReq("list", Null, Null, Null, {}))
       ELSE UNCHANGED adNet
  /\ lastToast' = NoToast
  /\ UNCHANGED <<adArticles, srvPending>>

\* fetchTabData after `await getAdminArticles({status: 'pending'})` settled;
\* the backend answers the GET when the response is due
AdListSettle(r, outcome) ==
  /\ BagIn(r, adNet)
  /\ r.ep = "list"
  /\ adNet' = Drop(adNet, r)
  /\ adArticles' = IF outcome = "ok" THEN srvPending ELSE adArticles
  /\ lastToast' = NoToast
  /\ UNCHANGED <<adTab, srvPending>>

\* the backend handles an articleAction request: a pending article is
\* approved or rejected and leaves the pending ones
AdServer(r, status) ==
  /\ BagIn(r, adNet)
  /\ r.ep = "action"
  /\ r.st = "sent"
  /\ IF status = "ok" /\ r.arg \in srvPending
       THEN /\ srvPending' = srvPending \ {r.arg}
            /\ adNet' = Answer(adNet, r, [r EXCEPT !.st = "ok"])
       ELSE /\ adNet' = Answer(adNet, r, [r EXCEPT !.st = "fail"])
            /\ UNCHANGED srvPending
  /\ UNCHANGED <<adTab, adArticles, lastToast>>

\* the Approve button of a listed article: handleArticleAction(id, 'approve'),
\* reason taking its default null, up to `await articleAction(...)`
AdApprove(a) ==
  /\ adTab = "articles"
  /\ a \in adArticles
  /\ AdPending("action") < AdMaxInFlight
  /\ adNet' = Send(adNet, AdReq("action", a, "approve", Null, adArticles))
  /\ lastToast' = NoToast
  /\ UNCHANGED <<adTab, adArticles, srvPending>>

\* the Reject button calling handleArticleAction whatever prompt returned
AdRejectAnyAnswer(a, reason) ==
  /\ adTab = "articles"
  /\ a \in adArticles
  /\ AdPending("action") < AdMaxInFlight
  /\ adNet' = Send(adNet, AdReq("action", a, "reject", reason, adArticles))
  /\ lastToast' = NoToast
  /\ UNCHANGED <<adTab, adArticles, srvPending>>

\* the Reject button of a listed article: reason is what prompt returned, and
\* handleArticleAction(id, 'reject', reason) is called only `if (reason)`
AdReject(a, reason) ==
  /\ adTab = "articles"
  /\ a \in adArticles
  /\ IF ReasonGiven(reason)
       THEN /\ AdPending("action") < AdMaxInFlight
            /\ adNet' = Send(adNet, AdReq("action", a, "reject", reason, adArticles))
       ELSE UNCHANGED adNet
  /\ lastToast' = NoToast
  /\ UNCHANGED <<adTab, adArticles, srvPending>>

\* handleArticleAction after `await articleAction(...)` settled
AdActionSettle(r, netErr) ==
  /\ BagIn(r, adNet)
  /\ r.ep = "action"
  /\ netErr \/ r.st \in {"ok", "fail"}
  /\ adNet' = Drop(adNet, r)
  /\ IF ~netErr /\ r.st = "ok"
       THEN /\ adArticles' = r.list \ {r.arg}
            /\ lastToast' = Toast("success", IF r.action = "approve"
                                               THEN "Article approved successfully"
                                               ELSE "Article rejectd successfully")
       ELSE /\ lastToast' = Toast("error", IF netErr THEN "Failed to fetch" ELSE "Request failed")
            /\ UNCHANGED adArticles
  /\ UNCHANGED <<adTab, srvPending>>

\* ------------------------------------------------------------------ Home
VARIABLES
  hmFilter,         \* Home state `filter`
  hmArticles,       \* Home state `articles`: the length of the list
  hmLoading,        \* Home state `loading`
  hmCarouselIndex,  \* Home state `carouselIndex`
  hmNet             \* bag of the getArticles requests of the Home page in flight

hmVars == <<hmFilter, hmArticles, hmLoading, hmCarouselIndex, hmNet>>

\* the filter tabs
HomeFilters == {"recent", "trending", "views", "likes"}

\* the number of cards the carousel shows at once
CarouselWindow == 4

\* getArticles({limit: 20, sort}) called by the [filter] effect's fetchData
\* (together with getStats and getSubjects) or by handleFilterChange
HmReq(by, sort) == [by |-> by, sort |-> sort]

HmIdle ==
  /\ hmFilter = "recent"
  /\ hmArticles = 0
  /\ hmLoading = TRUE
  /\ hmCarouselIndex = 0
  /\ hmNet = EmptyBag

\* Home mounted: the [filter] effect has run once, with filter = 'recent'
HmInit ==
  /\ hmFilter = "recent"
  /\ hmArticles = 0
  /\ hmLoading = TRUE
  /\ hmCarouselIndex = 0
  /\ hmNet = SetToBag({HmReq("fetchData", "recent")})

\* fetchData after its Promise.all settled: n is the length of the list the
\* backend answered getArticles with
HmFetchDataSettle(r, outcome, n) ==
  /\ BagIn(r, hmNet)
  /\ r.by = "fetchData"
  /\ hmNet' = Drop(hmNet, r)
  /\ hmArticles' = IF outcome = "ok" THEN n ELSE hmArticles
  /\ hmLoading' = FALSE
  /\ UNCHANGED <<hmFilter, hmCarouselIndex>>

\* a filter tab is clicked: handleFilterChange(newFilter) up to its await,
\* and, when the filter has changed, the [filter] effect that runs after the
\* render and calls fetchData
HmHandleFilterChange(newFilter) ==
  /\ hmFilter' = newFilter
  /\ IF newFilter # hmFilter
       THEN /\ BagCardinality(hmNet) + 2 <= HmMaxInFlight
            /\ hmNet' = Send(Send(hmNet, HmReq("handleFilterChange", newFilter)),
                             HmReq("fetchData", newFilter))
       ELSE /\ BagCardinality(hmNet) + 1 <= HmMaxInFlight
            /\ hmNet' = Send(hmNet, HmReq("handleFilterChange", newFilter))
  /\ UNCHANGED <<hmArticles, hmLoading, hmCarouselIndex>>

\* handleFilterChange after `await getArticles(...)` settled
HmFilterChangeSettle(r, outcome, n) ==
  /\ BagIn(r, hmNet)
  /\ r.by = "handleFilterChange"
  /\ hmNet' = Drop(hmNet, r)
  /\ hmArticles' = IF outcome = "ok" THEN n ELSE hmArticles
  /\ UNCHANGED <<hmFilter, hmLoading, hmCarouselIndex>>

\* nextCarousel; the button is disabled when carouselIndex >= articles.length - 4
HmNextCarousel ==
  /\ ~(hmCarouselIndex >= hmArticles - CarouselWindow)
  /\ hmCarouselIndex' = Min(hmCarouselIndex + 1, Max(0, hmArticles - CarouselWindow))
  /\ UNCHANGED <<hmFilter, hmArticles, hmLoading, hmNet>>

\* prevCarousel; the button is disabled when carouselIndex === 0
HmPrevCarousel ==
  /\ hmCarouselIndex # 0
  /\ hmCarouselIndex' = Max(hmCarouselIndex - 1, 0)
  /\ UNCHANGED <<hmFilter, hmArticles, hmLoading, hmNet>>

\* ------------------------------------------------- Explore filters and URL
\* The filters of Explore as they are written to the query string by the
\* [filters] effect and read from it by useState's initial value.  Text is a
\* sequence of characters; a word of unreserved characters ("subject",
\* "physics", "views") is written as one element.
VARIABLES
  urlFilters,  \* Explore state `filters`: [search, subject, sort]
  urlQuery     \* the query string of the location, without its '?'

urlVars == <<urlFilters, urlQuery>>

\* what can be typed into the search box, character by character
SearchChars == {"a", " ", "&", "=", "+", "%"}

RECURSIVE TextsOfLen(_)
TextsOfLen(n) ==
  IF n = 0 THEN {<< >>}
  ELSE {Append(t, c) : t \in TextsOfLen(n - 1), c \in SearchChars}

SearchTexts == UNION {TextsOfLen(n) : n \in 0..MaxSearchLen}
SubjectSlugs == {<< >>, <<"physics">>}
SortOptions == {<<"recent">>, <<"trending">>, <<"views">>, <<"likes">>}

UrlFilterValues(key) ==
  CASE key = "search" -> SearchTexts
    [] key = "subject" -> SubjectSlugs
    [] key = "sort" -> SortOptions

\* a serializer that escapes nothing but the space
EncodeCharSpaceOnly(c) == IF c = " " THEN <<"+">> ELSE <<c>>

\* URLSearchParams serializer (application/x-www-form-urlencoded): a space
\* becomes '+', a reserved character its percent escape
EncodeChar(c) ==
  CASE c = " " -> <<"+">>
    [] c = "&" -> <<"%", "2", "6">>
    [] c = "=" -> <<"%", "3", "D">>
    [] c = "+" -> <<"%", "2", "B">>
    [] c = "%" -> <<"%", "2", "5">>
    [] OTHER -> <<c>>

RECURSIVE Encode(_)
Encode(t) == IF t = << >> THEN << >> ELSE EncodeChar(Head(t)) \o Encode(Tail(t))

\* the character a percent escape stands for
Unescape(h1, h2) ==
  CASE h1 = "2" /\ h2 = "6" -> "&"
    [] h1 = "3" /\ h2 = "D" -> "="
    [] h1 = "2" /\ h2 = "B" -> "+"
    [] h1 = "2" /\ h2 = "5" -> "%"
    [] OTHER -> "?"

\* URLSearchParams parser on a name or a value: '+' is a space, a percent
\* escape its character
RECURSIVE Decode(_)
Decode(q) ==
  IF q = << >> THEN << >>
  ELSE IF Head(q) = "+" THEN <<" ">> \o Decode(Tail(q))
  ELSE IF Head(q) = "%" /\ Len(q) >= 3
    THEN <<Unescape(q[2], q[3])>> \o Decode(SubSeq(q, 4, Len(q)))
  ELSE <<Head(q)>> \o Decode(Tail(q))

\* the position of the first sep in q, 0 when there is none
IndexOf(q, sep) ==
  LET S == {i \in 1..Len(q) : q[i] = sep}
  IN  IF S = {} THEN 0 ELSE CHOOSE i \in S : \A k \in S : i <= k

RECURSIVE Split(_, _)
Split(q, sep) ==
  IF IndexOf(q, sep) = 0 THEN <<q>>
  ELSE <<SubSeq(q, 1, IndexOf(q, sep) - 1)>>
         \o Split(SubSeq(q, IndexOf(q, sep) + 1, Len(q)), sep)

\* params.set(name, value) on a parameter list that does not have the name
\* yet; new URLSearchParams() is the empty list
ParamsSet(params, name, value) == Append(params, [name |-> name, value |-> value])

\* URLSearchParams.toString(): name=value joined by '&'
RECURSIVE ParamsToString(_)
ParamsToString(params) ==
  IF params = << >> THEN << >>
  ELSE Encode(<<Head(params).name>>) \o <<"=">> \o Encode(Head(params).value)
         \o (IF Tail(params) = << >> THEN << >> ELSE <<"&">> \o ParamsToString(Tail(params)))

\* one name=value piece of a query string as a parameter
ParsePair(piece) ==
  IF IndexOf(piece, "=") = 0 THEN [name |-> Decode(piece), value |-> << >>]
  ELSE [name |-> Decode(SubSeq(piece, 1, IndexOf(piece, "=") - 1)),
        value |-> Decode(SubSeq(piece, IndexOf(piece, "=") + 1, Len(piece)))]

\* new URLSearchParams(query): the parameters of the non-empty pieces
ParseQuery(q) ==
  LET pieces == SelectSeq(Split(q, "&"), LAMBDA piece : piece # << >>)
  IN  [i \in 1..Len(pieces) |-> ParsePair(pieces[i])]

\* searchParams.get(name) || fallback: the value of the first parameter
\* called name; null (no such parameter) and '' give the fallback
GetOr(q, name, fallback) ==
  LET ps == ParseQuery(q)
      S == {i \in 1..Len(ps) : ps[i].name = <<name>>}
      first == CHOOSE i \in S : \A k \in S : i <= k
  IN  IF S = {} \/ ps[first].value = << >> THEN fallback ELSE ps[first].value

\* the initial value of `filters`
ReadFilters(q) ==
  [search |-> GetOr(q, "search", << >>),
   subject |-> GetOr(q, "subject", << >>),
   sort |-> GetOr(q, "sort", <<"recent">>)]

\* the query string the [filters] effect passes to setSearchParams
WriteFilters(f) ==
  LET p1 == IF f.subject # << >> THEN ParamsSet(<< >>, "subject", f.subject) ELSE << >>
      p2 == IF f.search # << >> THEN ParamsSet(p1, "search", f.search) ELSE p1
      p3 == IF f.sort # <<"recent">> THEN ParamsSet(p2, "sort", f.sort) ELSE p2
  IN  ParamsToString(p3)

\* [filters.search, filters.subject, filters.sort !== 'recent'].filter(Boolean).length
ActiveFilterCount(f) ==
  B2N(f.search # << >>) + B2N(f.subject # << >>) + B2N(f.sort # <<"recent">>)

\* Explore opened at /explore: the filters are read from the empty query
\* string and the effect has written them back (also the state of the
\* filters while another page is on screen)
UrlInit ==
  /\ urlQuery = << >>
  /\ urlFilters = ReadFilters(urlQuery)

\* handleFilterChange(key, value), then the [filters] effect
UrlHandleFilterChange(key, value) ==
  /\ value \in UrlFilterValues(key)
  /\ urlFilters' = [urlFilters EXCEPT ![key] = value]
  /\ urlQuery' = WriteFilters(urlFilters')

\* clearFilters, then the [filters] effect
UrlClearFilters ==
  /\ urlFilters' = [search |-> << >>, subject |-> << >>, sort |-> <<"recent">>]
  /\ urlQuery' = WriteFilters(urlFilters')

\* the page is loaded again at its current URL: Explore mounts with the
\* filters read from the query string, and the effect writes them back
UrlReload ==
  /\ urlFilters' = ReadFilters(urlQuery)
  /\ urlQuery' = WriteFilters(urlFilters')

\* --------------------------------------------------------------- Contact
VARIABLES
  ctLoading,     \* Contact state `loading`
  ctSubmitted,   \* Contact state `submitted`
  ctNet          \* bag of the submitContact requests in flight

ctVars == <<ctLoading, ctSubmitted, ctNet>>

CtIdle ==
  /\ ctLoading = FALSE
  /\ ctSubmitted = FALSE
  /\ ctNet = EmptyBag

\* Contact mounted: the form is shown, nothing sent
CtInit ==
  /\ CtIdle
  /\ lastToast = NoToast

\* handleSubmit up to its `await submitContact(formData)`; the form is
\* rendered while submitted is false and its button is disabled while loading
CtHandleSubmit ==
  /\ ~ctSubmitted
  /\ ~ctLoading
  /\ ctLoading' = TRUE
  /\ ctNet' = Send(ctNet, [ep |-> "submitContact"])
  /\ lastToast' = NoToast
  /\ UNCHANGED ctSubmitted

\* handleSubmit with setLoading(false) at the end of the try block instead of
\* in finally
CtSubmitSettleNoFinally(r, outcome) ==
  /\ BagIn(r, ctNet)
  /\ ctNet' = Drop(ctNet, r)
  /\ IF outcome = "ok"
       THEN /\ ctSubmitted' = TRUE
            /\ ctLoading' = FALSE
            /\ lastToast' = Toast("success", "Message sent successfully!")
       ELSE /\ lastToast' = Toast("error", IF outcome = "fail" THEN "Request failed"
                                             ELSE "Failed to fetch")
            /\ UNCHANGED <<ctSubmitted, ctLoading>>

\* handleSubmit after `await submitContact(formData)` settled: outcome is
\* "ok" (2xx), "fail" (non-2xx) or "network" (fetch rejected)
CtSubmitSettle(r, outcome) ==
  /\ BagIn(r, ctNet)
  /\ ctNet' = Drop(ctNet, r)
  /\ IF outcome = "ok"
       THEN /\ ctSubmitted' = TRUE
            /\ lastToast' = Toast("success", "Message sent successfully!")
       ELSE /\ lastToast' = Toast("error", IF outcome = "fail" THEN "Request failed"
                                             ELSE "Failed to fetch")
            /\ UNCHANGED ctSubmitted
  /\ ctLoading' = FALSE

\* "Send Another Message": setSubmitted(false) and the form is emptied
CtSendAnother ==
  /\ ctSubmitted
  /\ ctSubmitted' = FALSE
  /\ lastToast' = NoToast
  /\ UNCHANGED <<ctLoading, ctNet>>

\* ---------------------------------------------------------- AuthCallback
\* The AuthCallback page (AuthCallback.js) with the toasts it shows; the
\* router and AuthProvider state it works on is the one declared above.

\* State after the app was opened at a URL that renders AuthCallback
CbInit ==
  /\ AuthInit
  /\ AppRouter = "AuthCallback"
  /\ lastToast = NoToast

\* AuthCallback's effect: a run that gets past the ref and finds no
\* session_id in the fragment shows an error toast before navigating
CbProcessAuth(role) ==
  /\ ProcessAuth(role)
  /\ lastToast' = IF ~hasProcessed /\ SessionIdMatch(hash) = Null
                    THEN Toast("error", "Invalid authentication response")
                    ELSE NoToast

\* processAuth after `await googleLogin(sessionId)`: the success toast, or
\* the toast with the message of the error googleLogin threw
CbGoogleLoginSettle(r, netErr) ==
  /\ GoogleLoginSettle(r, netErr)
  /\ lastToast' = IF ~netErr /\ r.st = "ok" THEN Toast("success", "Welcome to TATVGYA!")
                  ELSE IF netErr THEN Toast("error", "Failed to fetch")
                  ELSE Toast("error", "Google login failed")

\* -------------------------------------------------------- specifications
VARIABLE formPage   \* the page with a form the router has on screen (Null: another page)

\* the state of the pages added after the first ones
restVars == <<ctVars, formPage, adVars, hmVars, urlVars>>

vars == <<authVars, apiVars, exVars, sdVars, arVars, toasts, aeVars, edVars, lgVars, lastToast,
          restVars>>

AuthIdle ==
  /\ user = Null
  /\ loading = TRUE
  /\ path = "/"
  /\ hash = ""
  /\ navFrom = Null
  /\ hasProcessed = FALSE
  /\ session = Null
  /\ authNet = EmptyBag

\* the state of the parts a specification leaves alone
notAuth == <<apiVars, exVars, sdVars, arVars, toasts, aeVars, edVars, lgVars, lastToast, restVars>>
notApi == <<authVars, exVars, sdVars, arVars, toasts, aeVars, edVars, lgVars, lastToast, restVars>>
notEx == <<authVars, apiVars, sdVars, arVars, aeVars, edVars, lgVars, lastToast, restVars>>
notSd == <<authVars, apiVars, exVars, arVars, toasts, aeVars, edVars, lgVars, lastToast, restVars>>
notAr == <<authVars, apiVars, exVars, sdVars, aeVars, edVars, lgVars, lastToast, restVars>>
notAe == <<authVars, apiVars, exVars, sdVars, arVars, toasts, edVars, lgVars, restVars>>
notEd == <<authVars, apiVars, exVars, sdVars, arVars, toasts, aeVars, lgVars, restVars>>
notLg == <<apiVars, exVars, sdVars, arVars, toasts, aeVars, edVars, restVars>>
\* the frames of the pages added later
coreVars == <<authVars, apiVars, exVars, sdVars, arVars, toasts, aeVars, edVars, lgVars>>
notCt == <<coreVars, formPage, adVars, hmVars, urlVars>>
notAd == <<coreVars, ctVars, formPage, hmVars, urlVars>>
notHm == <<coreVars, lastToast, ctVars, formPage, adVars, urlVars>>
notUrl == <<coreVars, lastToast, ctVars, formPage, adVars, hmVars>>
notCb == <<apiVars, exVars, sdVars, arVars, toasts, aeVars, edVars, lgVars, restVars>>
\* the AuthProvider and router state the Login page does not touch
lgAuthRest == <<loading, hash, hasProcessed, session, authNet>>

AuthNext ==
  \/ /\ Redirect
     /\ UNCHANGED notAuth
  \/ /\ \E p \in Paths : FollowLink(p)
     /\ UNCHANGED notAuth
  \/ /\ \E role \in Roles \cup {Null} : LoginSubmit(role)
     /\ UNCHANGED notAuth
  \/ /\ \E role \in Roles \cup {Null} : ProcessAuth(role)
     /\ UNCHANGED notAuth
  \/ /\ LogoutClick
     /\ UNCHANGED notAuth
  \/ /\ \E r \in BagToSet(authNet) : AuthServer(r)
     /\ UNCHANGED notAuth
  \/ /\ \E r \in BagToSet(authNet), e \in BOOLEAN : CheckAuthSettle(r, e)
     /\ UNCHANGED notAuth
  \/ /\ \E r \in BagToSet(authNet), e \in BOOLEAN : LoginSettle(r, e)
     /\ UNCHANGED notAuth
  \/ /\ \E r \in BagToSet(authNet), e \in BOOLEAN : GoogleLoginSettle(r, e)
     /\ UNCHANGED notAuth
  \/ /\ \E r \in BagToSet(authNet), e \in BOOLEAN : LogoutSettle(r, e)
     /\ UNCHANGED notAuth

ApiNext ==
  \/ /\ ApiCallSettle
     /\ UNCHANGED notApi
  \/ /\ \E fn \in {"apiCall", "publicApiCall"}, resp \in [status : Statuses, body : Bodies] :
            ApiCallAgain(fn, resp)
     /\ UNCHANGED notApi

ExNext ==
  \/ /\ \E key \in {"search", "subject", "sort"}, value \in Searches \cup Subjects \cup Sorts :
            /\ value \in (CASE key = "search" -> Searches [] key = "subject" -> Subjects
                            [] OTHER -> Sorts)
            /\ ExHandleFilterChange(key, value)
     /\ UNCHANGED notEx
  \/ /\ ExClearFilters
     /\ UNCHANGED notEx
  \/ /\ ExHandleSearch
     /\ UNCHANGED notEx
  \/ /\ ExLoadMore
     /\ UNCHANGED notEx
  \/ /\ \E r \in BagToSet(exNet), outcome \in {"ok", "fail", "network"} : ExFetchSettle(r, outcome)
     /\ UNCHANGED notEx

SdNext ==
  \/ /\ \E t \in Tabs : SdSetActiveTab(t)
     /\ UNCHANGED notSd
  \/ /\ \E r \in BagToSet(sdNet), outcome \in {"ok", "fail", "network"} : SdFetchSettle(r, outcome)
     /\ UNCHANGED notSd

ArNext ==
  \/ /\ \E r \in BagToSet(arNet), status \in {"ok", "fail"} : ArServer(r, status)
     /\ UNCHANGED notAr
  \/ /\ \E r \in BagToSet(arNet), e \in BOOLEAN : ArGetArticleSettle(r, e)
     /\ UNCHANGED notAr
  \/ /\ \E r \in BagToSet(arNet), e \in BOOLEAN : ArGetRelatedSettle(r, e)
     /\ UNCHANGED notAr
  \/ /\ ArHandleLike
     /\ UNCHANGED notAr
  \/ /\ \E r \in BagToSet(arNet), e \in BOOLEAN : ArLikeSettle(r, e)
     /\ UNCHANGED notAr
  \/ /\ ArHandleBookmark
     /\ UNCHANGED notAr
  \/ /\ \E r \in BagToSet(arNet), e \in BOOLEAN : ArBookmarkSettle(r, e)
     /\ UNCHANGED notAr

AeNext ==
  \/ /\ \E outcome \in {"ok", "fail"}, first \in SubjectIds : AeFetchDataSettle(outcome, first)
     /\ UNCHANGED notAe
  \/ /\ \E name \in FormFields : \E value \in FormValues(name) : AeHandleChange(name, value)
     /\ UNCHANGED notAe
  \/ /\ \E status \in {"draft", "pending"} : AeHandleSubmit(status)
     /\ UNCHANGED notAe
  \/ /\ \E r \in BagToSet(aeNet), outcome \in {"ok", "flagged", "fail", "network"} :
            AeSubmitSettle(r, outcome)
     /\ UNCHANGED notAe

EdNext ==
  \/ /\ \E t \in {"overview", "articles"} : EdSetActiveTab(t)
     /\ UNCHANGED notEd
  \/ /\ \E f \in ArticleFilters : EdSetArticleFilter(f)
     /\ UNCHANGED notEd
  \/ /\ \E r \in BagToSet(edNet), status \in {"ok", "fail"} : EdServer(r, status)
     /\ UNCHANGED notEd
  \/ /\ \E r \in BagToSet(edNet), outcome \in {"ok", "fail", "network"} : EdListSettle(r, outcome)
     /\ UNCHANGED notEd
  \/ /\ \E a \in ArticleIds, confirmed \in BOOLEAN : EdHandleDeleteArticle(a, confirmed)
     /\ UNCHANGED notEd
  \/ /\ \E r \in BagToSet(edNet), e \in BOOLEAN : EdDeleteSettle(r, e)
     /\ UNCHANGED notEd

LgNext ==
  \/ /\ Redirect
     /\ lastToast' = NoToast
     /\ UNCHANGED <<lgVars, notLg>>
  \/ /\ \E e \in Emails : LgHandleChange(e)
     /\ UNCHANGED <<lgAuthRest, notLg>>
  \/ /\ LgToggleMode
     /\ UNCHANGED <<lgAuthRest, notLg>>
  \/ /\ LgBackToSignup
     /\ UNCHANGED <<lgAuthRest, notLg>>
  \/ /\ \E role \in Roles : LgHandleSubmit(role)
     /\ UNCHANGED <<lgAuthRest, notLg>>
  \/ /\ \E r \in BagToSet(lgNet), outcome \in {"ok", "fail", "network"} : LgSubmitSettle(r, outcome)
     /\ UNCHANGED <<lgAuthRest, notLg>>
  \/ /\ LgHandleOtpSubmit
     /\ UNCHANGED <<lgAuthRest, notLg>>
  \/ /\ \E r \in BagToSet(lgNet), outcome \in {"ok", "fail", "network"} : LgOtpSettle(r, outcome)
     /\ UNCHANGED <<lgAuthRest, notLg>>

CbNext ==
  \/ /\ \E role \in Roles \cup {Null} : CbProcessAuth(role)
     /\ UNCHANGED notCb
  \/ /\ \E r \in BagToSet(authNet) : AuthServer(r)
     /\ lastToast' = NoToast
     /\ UNCHANGED notCb
  \/ /\ \E r \in BagToSet(authNet), e \in BOOLEAN : CheckAuthSettle(r, e)
     /\ lastToast' = NoToast
     /\ UNCHANGED notCb
  \/ /\ \E r \in BagToSet(authNet), e \in BOOLEAN : CbGoogleLoginSettle(r, e)
     /\ UNCHANGED notCb

CtNext ==
  \/ /\ CtHandleSubmit
     /\ UNCHANGED notCt
  \/ /\ \E r \in BagToSet(ctNet), outcome \in {"ok", "fail", "network"} : CtSubmitSettle(r, outcome)
     /\ UNCHANGED notCt
  \/ /\ CtSendAnother
     /\ UNCHANGED notCt

AdNext ==
  \/ /\ \E t \in {"overview", "articles"} : AdSetActiveTab(t)
     /\ UNCHANGED notAd
  \/ /\ \E r \in BagToSet(adNet), outcome \in {"ok", "fail", "network"} : AdListSettle(r, outcome)
     /\ UNCHANGED notAd
  \/ /\ \E r \in BagToSet(adNet), status \in {"ok", "fail"} : AdServer(r, status)
     /\ UNCHANGED notAd
  \/ /\ \E a \in PendingIds : AdApprove(a)
     /\ UNCHANGED notAd
  \/ /\ \E a \in PendingIds, reason \in PromptAnswers : AdReject(a, reason)
     /\ UNCHANGED notAd
  \/ /\ \E r \in BagToSet(adNet), e \in BOOLEAN : AdActionSettle(r, e)
     /\ UNCHANGED notAd

HmNext ==
  \/ /\ \E r \in BagToSet(hmNet), outcome \in {"ok", "fail"}, n \in 0..HmMaxLen :
            HmFetchDataSettle(r, outcome, n)
     /\ UNCHANGED notHm
  \/ /\ \E f \in HomeFilters : HmHandleFilterChange(f)
     /\ UNCHANGED notHm
  \/ /\ \E r \in BagToSet(hmNet), outcome \in {"ok", "fail"}, n \in 0..HmMaxLen :
            HmFilterChangeSettle(r, outcome, n)
     /\ UNCHANGED notHm
  \/ /\ HmNextCarousel
     /\ UNCHANGED notHm
  \/ /\ HmPrevCarousel
     /\ UNCHANGED notHm

UrlNext ==
  \/ /\ \E key \in {"search", "subject", "sort"} : \E value \in UrlFilterValues(key) :
            UrlHandleFilterChange(key, value)
     /\ UNCHANGED notUrl
  \/ /\ UrlClearFilters
     /\ UNCHANGED notUrl
  \/ /\ UrlReload
     /\ UNCHANGED notUrl

\* the router shows one page at a time: the events of the page on screen
FormsNext ==
  \/ /\ formPage = "Login"
     /\ LgNext
  \/ /\ formPage = "ArticleEditor"
     /\ AeNext
  \/ /\ formPage = "Contact"
     /\ CtNext

\* the pages that come with their own specification, not mounted
RestIdle == CtIdle /\ formPage = Null /\ AdIdle /\ HmIdle /\ UrlInit

PagesIdle == AeIdle /\ EdIdle /\ LgIdle /\ lastToast = NoToast /\ RestIdle

\* AuthProvider and the router, no page mounted
InitAuth == AuthInit /\ ApiIdle /\ ExIdle /\ SdIdle /\ ArIdle /\ toasts = {} /\ PagesIdle
SpecAuth == InitAuth /\ [][AuthNext]_vars

\* the api helper applied to one response after the other
InitApi == ApiInit /\ AuthIdle /\ ExIdle /\ SdIdle /\ ArIdle /\ toasts = {} /\ PagesIdle
SpecApi == InitApi /\ [][ApiNext]_vars

\* the Explore page
InitExplore == ExInit /\ AuthIdle /\ ApiIdle /\ SdIdle /\ ArIdle /\ toasts = {} /\ PagesIdle
SpecExplore == InitExplore /\ [][ExNext]_vars

\* the StudentDashboard page
InitStudent == SdInit /\ AuthIdle /\ ApiIdle /\ ExIdle /\ ArIdle /\ toasts = {} /\ PagesIdle
SpecStudent == InitStudent /\ [][SdNext]_vars

\* the Article page
InitArticle == ArInit /\ AuthIdle /\ ApiIdle /\ ExIdle /\ SdIdle /\ PagesIdle
SpecArticle == InitArticle /\ [][ArNext]_vars

\* the ArticleEditor page
InitEditor == AeInit /\ AuthIdle /\ ApiIdle /\ ExIdle /\ SdIdle /\ ArIdle /\ toasts = {}
                /\ EdIdle /\ LgIdle /\ RestIdle
SpecEditor == InitEditor /\ [][AeNext]_vars

\* the articles list of EducatorDashboard
InitEducator == EdInit /\ AuthIdle /\ ApiIdle /\ ExIdle /\ SdIdle /\ ArIdle /\ toasts = {}
                  /\ AeIdle /\ LgIdle /\ RestIdle
SpecEducator == InitEducator /\ [][EdNext]_vars

\* the Login page, reached directly or through ProtectedRoute
InitLogin == LgInit /\ ApiIdle /\ ExIdle /\ SdIdle /\ ArIdle /\ toasts = {} /\ AeIdle /\ EdIdle
               /\ RestIdle
SpecLogin == InitLogin /\ [][LgNext]_vars

\* the AuthCallback page, from the moment the app is opened on it
InitCallback == CbInit /\ ApiIdle /\ ExIdle /\ SdIdle /\ ArIdle /\ toasts = {}
                  /\ AeIdle /\ EdIdle /\ LgIdle /\ RestIdle
SpecCallback == InitCallback /\ [][CbNext]_vars

\* the pages with a form that sets `loading` around its request: Login (with
\* its OTP screen), ArticleEditor and Contact, each from its mount
FormsInit ==
  \/ formPage = "Login" /\ LgInit /\ AeIdle /\ CtIdle
  \/ formPage = "ArticleEditor" /\ AeInit /\ AuthIdle /\ LgIdle /\ CtIdle
  \/ formPage = "Contact" /\ CtInit /\ AuthIdle /\ LgIdle /\ AeIdle
InitForms == FormsInit /\ ApiIdle /\ ExIdle /\ SdIdle /\ ArIdle /\ toasts = {} /\ EdIdle /\ AdIdle
               /\ HmIdle /\ UrlInit
SpecForms == InitForms /\ [][FormsNext]_vars

\* every page modelled before AdminDashboard, not mounted
CoreIdle == AuthIdle /\ ApiIdle /\ ExIdle /\ SdIdle /\ ArIdle /\ toasts = {}
              /\ AeIdle /\ EdIdle /\ LgIdle

\* the pending articles of AdminDashboard
InitAdmin == AdInit /\ CoreIdle /\ CtIdle /\ formPage = Null /\ HmIdle /\ UrlInit
SpecAdmin == InitAdmin /\ [][AdNext]_vars

\* the featured articles of the Home page
InitHome == HmInit /\ CoreIdle /\ lastToast = NoToast /\ CtIdle /\ formPage = Null /\ AdIdle
              /\ UrlInit
SpecHome == InitHome /\ [][HmNext]_vars

\* the filters of Explore and the query string
InitUrl == UrlInit /\ CoreIdle /\ lastToast = NoToast /\ CtIdle /\ formPage = Null /\ AdIdle
             /\ HmIdle
SpecUrl == InitUrl /\ [][UrlNext]_vars

\* ---------------------------------------------------------------- claims

\* C1: a role-gated page is rendered only when the session check has finished,
\* user is non-null and user.role is in the route's allowedRoles:
\* StudentDashboard only for 'student', EducatorDashboard and ArticleEditor
\* only for 'educator' or 'admin', AdminDashboard only for 'admin'.
RoleGatedRender ==
  /\ AppRouter = "StudentDashboard" =>
       loading = FALSE /\ user # Null /\ user = "student" /\ path = "/dashboard"
  /\ AppRouter \in {"EducatorDashboard", "ArticleEditor"} =>
       loading = FALSE /\ user # Null /\ user \in {"educator", "admin"}
         /\ path \in {"/educator", "/educator/create", "/educator/edit/:id"}
  /\ AppRouter = "AdminDashboard" =>
       loading = FALSE /\ user # Null /\ user = "admin" /\ path = "/admin"

\* an admin, logged in, sees the educator's editor
RoleGatedRenderWitness ==
  AppRouter = "ArticleEditor" /\ user = "admin" /\ path = "/educator/edit/:id"

\* what ProtectedRoute renders on a guarded route, as C2 states it
GuardOutcome ==
  (path \in ProtectedPaths /\ ~HashIncludesSessionId(hash)) =>
    /\ loading => AppRouter = "Spinner"
    /\ (~loading /\ user = Null) => AppRouter = "NavigateLogin"
    /\ (~loading /\ user # Null /\ user \notin AllowedRoles(path)) => AppRouter = "NavigateHome"
    /\ (~loading /\ user # Null /\ user \in AllowedRoles(path)) =>
         AppRouter \notin {"NavigateLogin", "NavigateHome", "Spinner"}

\* a step that sends the visitor to /login with a recorded origin
SentToLogin == navFrom' # Null /\ (navFrom' # navFrom \/ path' # path)

UserStaysLoggedIn ==
  [][(user # Null /\ user' = Null) =>
       \E r \in BagToSet(authNet) : r.ep = "logout"]_vars

\* messages of the toast.error calls of the pages modelled here
ErrorToasts == {"Article not found", "Please login to like articles", "Failed to like article",
                "Please login to bookmark articles", "Failed to bookmark article"}

\* C3: every API request that completes with a non-2xx response results in a
\* user-facing error toast; here for the getArticles requests of Explore.
ErrorsSurfaceAsToast == exLastError = "http" => toasts \cap ErrorToasts # {}

\* the Error message C4 states for a non-2xx response with the given body
ClaimedMessage(body) ==
  IF body.fmt = "notjson" THEN "An error occurred"
  ELSE IF Truthy(body.detail) THEN body.detail
  ELSE "Request failed"

\* C4: apiCall and publicApiCall return the parsed JSON body only for a 2xx
\* response; for every non-2xx response they throw an Error whose message is
\* the body's detail when present, 'Request failed' when the JSON body has no
\* detail and 'An error occurred' when the body is not JSON.
ApiCallContract ==
  apiOut # Pending =>
    /\ apiOut.kind = "return" => (ResponseOk(apiResp) /\ apiOut.body = apiResp.body)
    /\ ~ResponseOk(apiResp) =>
         (apiOut.kind # "return" /\ apiOut.message = ClaimedMessage(apiResp.body))

\* C5: on the Explore page, once no getArticles request is in flight (and none
\* failed), the displayed list consists of results for the current filters
\* only, whatever the order in which the responses arrived.
ExListMatchesFilters ==
  (exNet = EmptyBag /\ exLastError = Null) =>
    \A i \in DOMAIN exArticles : exArticles[i].filters = exFilters

\* C6: in StudentDashboard, whenever no request is in flight and the fetch
\* issued last (the one for the active tab) succeeded, the articles shown are
\* the ones returned for the active tab.
SdListFollowsTab ==
  (sdNet = EmptyBag /\ sdLatest = "ok") => sdArticles = sdTab

\* C8: Explore pagination: the initial load requests page 1 and every Load More
\* click requests the page following the last page loaded, so no page is
\* requested twice and the list is the concatenation of pages 1, 2, ...
ExPagesInOrder ==
  /\ \A r \in BagToSet(exNet) : ~r.reset => r.page > 1
  /\ (exNet = EmptyBag /\ exLastError = Null
        /\ \A i \in DOMAIN exArticles : exArticles[i].filters = exFilters)
       => \A i \in DOMAIN exArticles : exArticles[i].page = i

\* a step in which handleLike / handleBookmark has sent its request
LikeClicked == CopiesIn(ArReq("like"), arNet') > CopiesIn(ArReq("like"), arNet)
BookmarkClicked == CopiesIn(ArReq("bookmark"), arNet') > CopiesIn(ArReq("bookmark"), arNet)

\* a step that takes the 2xx answer r off the network
Received(r) == r.st = "ok" /\ CopiesIn(r, arNet') < CopiesIn(r, arNet)

\* C9 as stated: the toggle is optimistic, a click by an authenticated user
\* changes the displayed isLiked (isBookmarked) at click time.
OptimisticToggle ==
  [][/\ LikeClicked => arIsLiked' # arIsLiked
     /\ BookmarkClicked => arIsBookmarked' # arIsBookmarked]_vars

\* C9 amended: a click by an authenticated user sends the request and leaves
\* isLiked, likeCount, isBookmarked and bookmarkCount as they are; they change
\* only when a 2xx answer arrives, and become the values that answer carries.
ToggleOnResponse ==
  [][/\ (LikeClicked \/ BookmarkClicked) =>
          UNCHANGED <<arIsLiked, arLikeCount, arIsBookmarked, arBookmarkCount>>
     /\ (arIsLiked' # arIsLiked \/ arLikeCount' # arLikeCount) =>
          \E r \in BagToSet(arNet) :
            /\ Received(r) /\ r.ep \in {"like", "article"}
            /\ arIsLiked' = r.flag /\ arLikeCount' = r.count
     /\ (arIsBookmarked' # arIsBookmarked \/ arBookmarkCount' # arBookmarkCount) =>
          \E r \in BagToSet(arNet) :
            /\ Received(r)
            /\ \/ r.ep = "bookmark" /\ arIsBookmarked' = r.flag /\ arBookmarkCount' = r.count
               \/ r.ep = "article" /\ arIsBookmarked' = r.flag2 /\ arBookmarkCount' = r.count2]_vars

\* the backend has toggled the like and its answer is on its way, while the
\* page still shows the state from before the click
ToggleOnResponseWitness ==
  /\ arAuth /\ ArButtonsShown
  /\ \E r \in BagToSet(arNet) : r.ep = "like" /\ r.st = "ok" /\ r.flag # arIsLiked

\* C10: whenever no like (bookmark) request is in flight (and none failed),
\* the displayed isLiked and likeCount (isBookmarked and bookmarkCount) equal
\* the backend's state for the article and user.
ToggleConsistency ==
  ArButtonsShown =>
    /\ (ArPending("like") = 0 /\ "Failed to like article" \notin toasts) =>
         (arIsLiked = srvLiked /\ arLikeCount = SrvLikeCount)
    /\ (ArPending("bookmark") = 0 /\ "Failed to bookmark article" \notin toasts) =>
         (arIsBookmarked = srvBookmarked /\ arBookmarkCount = SrvBookmarkCount)

\* the requests AuthProvider issues in the step
AuthSent == {r \in BagToSet(authNet') :
               r.st = "sent" /\ CopiesIn(r, authNet') > CopiesIn(r, authNet)}

\* the user action or change of triggering state that issues a request to ep
Trigger(ep) ==
  CASE ep = "login" -> \E role \in Roles \cup {Null} : LoginSubmit(role)
    [] ep = "google" -> ~hasProcessed /\ hasProcessed' /\ AppRouter = "AuthCallback"
    [] ep = "logout" -> LogoutClick
    [] OTHER -> FALSE

MeRequests == {r \in BagToSet(authNet) : r.ep = "me"}

\* C15: loading is true from mount until the single /auth/me request settles,
\* becomes false when it settles, whatever the outcome, and is never set back
\* to true; at that moment user is the returned record on 2xx, null otherwise.
SessionCheck ==
  /\ [](loading <=> MeRequests # {})
  /\ [](\A r \in MeRequests : CopiesIn(r, authNet) = 1 /\ Cardinality(MeRequests) = 1)
  /\ [][loading' => loading]_vars
  /\ [][(loading /\ ~loading') =>
          \E r \in MeRequests :
            /\ ~BagIn(r, authNet')
            /\ user' = Null \/ (r.st = "ok" /\ user' = r.role)
            /\ r.st # "ok" => user' = Null
            /\ CheckAuthSettle(r, FALSE) /\ r.st = "ok" => user' = r.role /\ user' # Null]_vars
  /\ [][(MeRequests # {} /\ MeRequests' = {}) => ~loading']_vars

\* the session check has settled with a non-2xx answer
SessionCheckWitness ==
  loading = FALSE /\ user = Null /\ session = Null /\ MeRequests = {} /\ path = "/admin"

\* a step in which logout()'s fetch resolved, and one in which it rejected
LogoutResolves == \E r \in BagToSet(authNet) : LogoutSettle(r, FALSE)
LogoutRejects == \E r \in BagToSet(authNet) : LogoutSettle(r, TRUE)

\* C17: whenever logout() resolves, whatever the status the endpoint answered,
\* user is null, isAuthenticated, isAdmin, isEducator and isStudent are false
\* and the handler navigates to '/'; when the request rejects, user is left
\* as it is and no navigation happens.
LogoutClearsUser ==
  /\ [][LogoutResolves =>
          /\ user' = Null
          /\ ~isAuthenticated' /\ ~isAdmin' /\ ~isEducator' /\ ~isStudent'
          /\ path' = "/" /\ hash' = ""]_vars
  /\ [][(LogoutRejects /\ ~LogoutResolves) => UNCHANGED <<user, path, hash, navFrom>>]_vars

\* the logout endpoint has answered non-2xx while the user is still logged in
LogoutClearsUserWitness ==
  /\ user # Null /\ path = "/educator"
  /\ \E r \in BagToSet(authNet) : r.ep = "logout" /\ r.st = "fail"

\* a step in which googleLogin has been called
GoogleLoginCalled == \E r \in AuthSent : r.ep = "google"

\* C18: googleLogin is called at most once per mounted AuthCallback: only by
\* a run of the effect that finds hasProcessed.current unset and sets it, so
\* further runs of the effect call nothing and at most one google-callback
\* request exists.
ProcessedOnce ==
  /\ [][GoogleLoginCalled => (~hasProcessed /\ hasProcessed')]_vars
  /\ [](GooglePending <= 1)
  /\ [](hasProcessed => AppRouter = "AuthCallback")

\* AuthCallback is mounted, its effect has called googleLogin, and a further
\* run of the effect is possible
ProcessedOnceWitness ==
  hasProcessed /\ AppRouter = "AuthCallback" /\ GooglePending = 1

\* what C11 demands of the form for a submit with the given status
FormValid(fd, status) ==
  /\ Trim(fd.title) # EmptyStr
  /\ Trim(fd.content) # EmptyStr
  /\ fd.subject_id # ""
  /\ status = "pending" => fd.originality_confirmed

\* C11: every createArticle request ArticleEditor sends has a title and a
\* content that are non-blank after trimming, a non-empty subject_id, a status
\* 'draft' or 'pending' and originality_confirmed = true when the status is
\* 'pending'; a submit whose check fails shows an error toast, sends no
\* request and navigates nowhere.
FormValidation ==
  /\ [](\A r \in BagToSet(aeNet) :
          /\ Trim(r.data.title) # EmptyStr
          /\ Trim(r.data.content) # EmptyStr
          /\ r.data.subject_id # ""
          /\ r.data.status \in {"draft", "pending"}
          /\ r.data.status = "pending" => r.data.originality_confirmed = TRUE)
  /\ [][\A status \in {"draft", "pending"} :
          (AeHandleSubmit(status) /\ ~FormValid(aeFormData, status)) =>
            /\ lastToast'.kind = "error"
            /\ aeNet' = aeNet
            /\ aePath' = aePath]_vars

\* Submit for Review was clicked on a form complete but for the originality
\* box: the toast is shown, nothing is in flight, the editor is still open
FormValidationWitness ==
  /\ lastToast = Toast("error", "Please confirm content originality")
  /\ Trim(aeFormData.title) # EmptyStr /\ Trim(aeFormData.content) # EmptyStr
  /\ aeNet = EmptyBag /\ aePath = Null /\ ~aeLoading

\* the createArticle requests sent by the step
AeSent == {r \in BagToSet(aeNet') : CopiesIn(r, aeNet') > CopiesIn(r, aeNet)}

\* C13 as stated: each of title, content, excerpt, cover_image and subject_id
\* of the payload equals the value of that form field at submit time.
PayloadEqualsForm ==
  [][\A r \in AeSent :
       /\ r.data.title = aeFormData.title
       /\ r.data.content = aeFormData.content
       /\ r.data.excerpt = aeFormData.excerpt
       /\ r.data.cover_image = aeFormData.cover_image
       /\ r.data.subject_id = aeFormData.subject_id]_vars

\* p is a prefix of s
IsPrefix(p, s) == p.len <= s.len /\ (p.len > 0 => p.text = s.text)

\* C13 amended: title, content and subject_id of the payload equal the form
\* fields at submit time; excerpt is the entered excerpt when that is not
\* empty and otherwise the first 200 characters of content; cover_image is the
\* entered value when that is not empty and otherwise null.
PayloadFromForm ==
  [][\A r \in AeSent :
       /\ r.data.title = aeFormData.title
       /\ r.data.content = aeFormData.content
       /\ r.data.subject_id = aeFormData.subject_id
       /\ IF aeFormData.excerpt # EmptyStr
            THEN r.data.excerpt = aeFormData.excerpt
            ELSE /\ IsPrefix(r.data.excerpt, aeFormData.content)
                 /\ r.data.excerpt.len = Min(aeFormData.content.len, ExcerptLimit)
       /\ IF aeFormData.cover_image # EmptyStr
            THEN r.data.cover_image = aeFormData.cover_image
            ELSE r.data.cover_image = NullStr]_vars

\* a request whose excerpt was cut from a content longer than 200 characters
\* and whose cover_image is null
PayloadFromFormWitness ==
  \E r \in BagToSet(aeNet) :
    /\ r.data.content.len > ExcerptLimit
    /\ r.data.excerpt.len = ExcerptLimit /\ r.data.excerpt.text = r.data.content.text
    /\ r.data.cover_image = NullStr

\* C12: an article whose delete request succeeded is removed from the list
\* of EducatorDashboard and does not reappear while the list is not
\* refetched, whatever the interleaving of deletes started before earlier
\* ones completed.
DeletedStayRemoved == edDeleted \cap edArticles = {}

\* the step sends a deleteArticle request for article a
DeleteSent(a) ==
  \E r \in BagToSet(edNet') :
    r.ep = "delete" /\ r.arg = a /\ r.st = "sent" /\ CopiesIn(r, edNet') > CopiesIn(r, edNet)

\* C19: deleteArticle is requested only for a listed article whose displayed
\* status is not 'published' and only after the confirmation dialog was
\* accepted; declining the dialog sends nothing and leaves the list as it is,
\* and a failed delete leaves the list as it is.
DeleteAfterConfirm ==
  /\ [][\A a \in ArticleIds :
          DeleteSent(a) =>
            /\ edTab = "articles" /\ a \in edArticles /\ StatusOf(a) # "published"
            /\ EdHandleDeleteArticle(a, TRUE)]_vars
  /\ [][\A a \in ArticleIds :
          EdHandleDeleteArticle(a, FALSE) => UNCHANGED <<edNet, edArticles>>]_vars
  /\ [][\A r \in BagToSet(edNet), e \in BOOLEAN :
          (EdDeleteSettle(r, e) /\ (e \/ r.st = "fail")) => UNCHANGED edArticles]_vars

\* a delete was confirmed and failed: the toast is shown, the list is complete
DeleteAfterConfirmWitness ==
  /\ lastToast = Toast("error", "Request failed")
  /\ edTab = "articles" /\ edArticles = ArticleIds /\ edDeleted = {}

\* C16: a successful register never sets user; the OTP screen is shown only
\* after a register call succeeded; the email sent to verifyOtp is the email
\* of the most recent successful register; user becomes non-null only when
\* verifyOtp (or, outside the sign-up path, login) succeeds.
OtpSignUp ==
  /\ [][\A r \in BagToSet(lgNet) :
          (r.ep = "register" /\ LgSubmitSettle(r, "ok")) => user' = user]_vars
  /\ [](lgShowOtp => (lgRegistered # Null /\ lgEmail = lgRegistered))
  /\ [](\A r \in BagToSet(lgNet) : r.ep = "verify" => r.email = lgRegistered)
  /\ [][(user = Null /\ user' # Null) =>
          \E r \in BagToSet(lgNet) :
            \/ r.ep = "verify" /\ LgOtpSettle(r, "ok")
            \/ r.ep = "login" /\ LgSubmitSettle(r, "ok")]_vars

\* verifyOtp is in flight for the registered email while the sign-up form
\* holds another one
OtpSignUpWitness ==
  /\ lgShowOtp /\ user = Null /\ lgFormEmail # lgEmail
  /\ \E r \in BagToSet(lgNet) : r.ep = "verify" /\ r.email = "a@x.io"

\* C20: after ProtectedRoute has redirected a visitor from guarded route R to
\* /login (recording R), a successful login navigates to R, and to '/' when
\* no origin was recorded; a failed login shows an error toast, leaves user
\* as it is and stays on /login.
ReturnToOrigin ==
  /\ [][(path \in ProtectedPaths /\ path' = "/login") => navFrom' = path]_vars
  /\ [][\A r \in BagToSet(lgNet) :
          (r.ep = "login" /\ LgSubmitSettle(r, "ok")) =>
            /\ user' # Null
            /\ path' = (IF navFrom # Null THEN navFrom ELSE "/")]_vars
  /\ [][\A r \in BagToSet(lgNet), outcome \in {"fail", "network"} :
          (r.ep = "login" /\ LgSubmitSettle(r, outcome)) =>
            /\ lastToast'.kind = "error"
            /\ UNCHANGED <<user, path>>
            /\ path = "/login"]_vars

\* an admin, sent to /login from /admin, is back on /admin after the login
ReturnToOriginWitness ==
  user = "admin" /\ path = "/admin" /\ lastToast = Toast("success", "Welcome back!")

\* C21: the outcomes of AuthCallback.  A run of processAuth on a fragment
\* without session_id=<something other than '&'> sends no googleLogin request,
\* shows an error toast and navigates to /login; a googleLogin that fails
\* leaves user unchanged, shows an error toast and navigates to /login; the
\* callback sets user only when googleLogin succeeded, and then navigates to /.
CallbackOutcomes ==
  [][/\ \A role \in Roles \cup {Null} :
          (CbProcessAuth(role) /\ ~hasProcessed /\ SessionIdMatch(hash) = Null)
            => /\ authNet' = authNet
               /\ lastToast'.kind = "error"
               /\ path' = "/login"
     /\ \A r \in BagToSet(authNet), e \in BOOLEAN :
          CbGoogleLoginSettle(r, e)
            => IF ~e /\ r.st = "ok"
                 THEN user' = r.role /\ path' = "/" /\ lastToast'.kind = "success"
                 ELSE user' = user /\ path' = "/login" /\ lastToast'.kind = "error"
    ]_vars

\* a googleLogin that the backend refused ended on /login with the error toast
CallbackOutcomesWitness ==
  /\ lastToast = Toast("error", "Google login failed")
  /\ path = "/login"
  /\ user = Null

\* isLiked, likeCount, isBookmarked and bookmarkCount of the Article page
arShown == <<arIsLiked, arLikeCount, arIsBookmarked, arBookmarkCount>>

\* C22: on the Article page handleLike and handleBookmark of a visitor who is
\* not authenticated send no request, leave isLiked, likeCount, isBookmarked
\* and bookmarkCount unchanged and show their error toast; a like or bookmark
\* request that fails leaves the four values unchanged as well.
GuestAndFailureKeepCounts ==
  [][/\ (~arAuth /\ ArHandleLike)
          => arNet' = arNet /\ arShown' = arShown /\ "Please login to like articles" \in toasts'
     /\ (~arAuth /\ ArHandleBookmark)
          => arNet' = arNet /\ arShown' = arShown
               /\ "Please login to bookmark articles" \in toasts'
     /\ \A r \in BagToSet(arNet), e \in BOOLEAN :
          ((ArLikeSettle(r, e) \/ ArBookmarkSettle(r, e)) /\ (e \/ r.st = "fail"))
            => arShown' = arShown
    ]_vars

\* a signed-in user's bookmark request has failed while the article is shown
GuestAndFailureKeepCountsWitness ==
  /\ arAuth
  /\ ArButtonsShown
  /\ "Failed to bookmark article" \in toasts

\* fetchData of the Article page has nothing in flight any more
ArFetchDone == ArPending("article") = 0 /\ ArPending("related") = 0

\* C29: the Article page displays the article only if getArticle and the
\* getRelatedArticles after it both succeeded: the display starts with the
\* successful answer to getRelatedArticles, a failure of either request shows
\* the toast 'Article not found' and navigates to /explore, and once fetchData
\* is over loading is false.
ArticleNeedsBothFetches ==
  /\ [](ArFetchDone => ~arLoading)
  /\ [](ArButtonsShown => ArFetchDone /\ "Article not found" \notin toasts)
  /\ [][/\ (~ArButtonsShown /\ ArButtonsShown')
             => \E r \in BagToSet(arNet) : r.st = "ok" /\ ArGetRelatedSettle(r, FALSE)
        /\ \A r \in BagToSet(arNet), e \in BOOLEAN :
             ((ArGetArticleSettle(r, e) \/ ArGetRelatedSettle(r, e)) /\ (e \/ r.st = "fail"))
               => /\ "Article not found" \in toasts'
                  /\ arPath' = "/explore"
                  /\ ~arLoading'
       ]_vars

\* getArticle succeeded, getRelatedArticles failed: the page has left for /explore
ArticleNeedsBothFetchesWitness ==
  /\ arArticle # Null
  /\ ArFetchDone
  /\ "Article not found" \in toasts
  /\ arPath = "/explore"
  /\ ~arLoading

\* C25: on the edit route /educator/edit/:id saving in ArticleEditor updates
\* the article with that id (updateArticle) and creates no new article: every
\* request the editor sends there is an updateArticle request.
SaveOnEditRouteUpdates ==
  aeId # Null => \A r \in BagToSet(aeNet) : r.ep = "updateArticle"

\* C23: single-flight form submission.  In the Login form, the OTP form, the
\* Contact form and ArticleEditor, loading is true exactly while the form's
\* request is in flight and at most one request of the form is in flight; so
\* loading is false again after every outcome of the request.
SingleFlightForms ==
  /\ lgLoading = (lgNet # EmptyBag)
  /\ BagCardinality(lgNet) <= 1
  /\ aeLoading = (aeNet # EmptyBag)
  /\ BagCardinality(aeNet) <= 1
  /\ ctLoading = (ctNet # EmptyBag)
  /\ BagCardinality(ctNet) <= 1

\* the Contact form's request failed and the form can be submitted again
SingleFlightFormsWitness ==
  /\ formPage = "Contact"
  /\ lastToast.kind = "error"
  /\ ~ctLoading
  /\ ~ctSubmitted
  /\ ctNet = EmptyBag

\* the articleAction requests the step sends
AdSent == {r \in BagToSet(adNet') : r.ep = "action" /\ CopiesIn(r, adNet') > CopiesIn(r, adNet)}

\* C24: AdminDashboard sends a 'reject' articleAction only with a non-empty
\* reason and an 'approve' one always with reason null; a rejection prompt
\* that was cancelled or left empty sends nothing and leaves the pending list
\* as it is, and so does an action that failed.
RejectNeedsReason ==
  [][/\ \A r \in AdSent :
          /\ r.action = "reject" => r.reason # Null /\ r.reason # ""
          /\ r.action = "approve" => r.reason = Null
     /\ \A a \in PendingIds, reason \in {Null, ""} :
          AdReject(a, reason) => adNet' = adNet /\ adArticles' = adArticles
     /\ \A r \in BagToSet(adNet), e \in BOOLEAN :
          (AdActionSettle(r, e) /\ (e \/ r.st = "fail")) => adArticles' = adArticles
    ]_vars

\* a rejection with a reason is on its way while the article is still listed
RejectNeedsReasonWitness ==
  \E r \in BagToSet(adNet) :
    /\ r.ep = "action"
    /\ r.action = "reject"
    /\ r.reason = "copied"
    /\ r.arg \in adArticles

\* C26: the Home carousel bound.  In every reachable state
\* 0 <= carouselIndex <= max(0, articles.length - 4), whatever the sequence of
\* nextCarousel, prevCarousel and filter changes that replace the list.
CarouselBound ==
  /\ 0 <= hmCarouselIndex
  /\ hmCarouselIndex <= Max(0, hmArticles - CarouselWindow)

\* the getArticles requests the step sends
HmSent == {r \in BagToSet(hmNet') : CopiesIn(r, hmNet') > CopiesIn(r, hmNet)}

\* C27: selecting a sort filter different from the current one issues exactly
\* one getArticles request, with sort equal to the filter selected.
FilterChangeFetchesOnce ==
  [][hmFilter' # hmFilter
       => /\ BagCardinality(hmNet') = BagCardinality(hmNet) + 1
          /\ \A r \in HmSent : r.sort = hmFilter'
    ]_vars

\* C28: the filters of Explore round-trip through the URL.  For every filter
\* state (any search text, any subject, sort one of recent, trending, views,
\* likes) the query string written by the filter effect, read back by the
\* initial-state logic, gives the same filter state; clearFilters gives the
\* empty query string and activeFilterCount = 0.
FiltersRoundTrip ==
  /\ [](urlQuery = WriteFilters(urlFilters) /\ ReadFilters(urlQuery) = urlFilters)
  /\ [][UrlClearFilters => urlQuery' = << >> /\ ActiveFilterCount(urlFilters') = 0]_vars

\* a search text with a reserved character, a subject and a sort other than
\* the default are in the URL
FiltersRoundTripWitness ==
  /\ urlFilters = [search |-> <<"a", "&">>, subject |-> <<"physics">>, sort |-> <<"views">>]
  /\ urlQuery # << >>
  /\ ActiveFilterCount(urlFilters) = 3

====
